---- MODULE Spec2Model ----
(***************************************************************************)
(* A model of automata's definition-file readers and of discover().        *)
(*                                                                         *)
(* Python values are tagged records: [kind |-> "dict", v |-> f] where f is *)
(* a function from key strings to values, [kind |-> "list", v |-> seq],    *)
(* [kind |-> "str", v |-> s], [kind |-> "bool", v |-> b],                  *)
(* [kind |-> "datetime", v |-> n] and [kind |-> "none"].  dictconfig       *)
(* schemas are Python dictionaries and are written in the same encoding,   *)
(* because a collection file's metadata_schema is a document value that is *)
(* spliced into a schema.                                                  *)
(***************************************************************************)
EXTENDS Integers, Sequences, FiniteSets, TLC

VARIABLES
    pc,               \* position of the modelled call
    fn,               \* the function being called
    path,             \* argument: path of the file being read
    publication_spec, \* argument of read_publication_file (PyNone if omitted)
    raw_file,         \* text of the file: YamlSyntaxError or the loaded value
    previous,         \* argument of read_publication_file (PyNone if omitted)
    variables,        \* argument: the external variables (vars) of the call
    ret,              \* outcome of the call: a return value or a raised exception
    collection_yaml,  \* file system: directory |-> content of its collection.yaml
    publication_yaml, \* file system: directory |-> content of its publication.yaml
    queue,            \* discover: the search queue of (path, parent collection path)
    found_collections,  \* discover: collection paths found, in order of discovery
    found_publications, \* discover: (publication path, collection path), insertion order
    publication_paths,  \* discover: the sorted publication dictionary
    collections,      \* discover: collection key |-> Collection
    cursor,           \* discover: number of loop iterations done in the current phase
    read_log,         \* history: the read_publication_file calls discover has made
    skip_directories, \* argument of discover: the directory names to skip
    events            \* history: the files discover read and the callbacks it invoked

readVars == <<pc, fn, path, publication_spec, raw_file, previous, variables, ret>>
discoverVars == <<collection_yaml, publication_yaml, queue, found_collections,
                  found_publications, publication_paths, collections, cursor, read_log,
                  skip_directories, events>>

\* ---------------------------------------------------------------------------
\* bounds

\* the largest number of entries in the artifacts map of a publication file
MaxArtifacts == 2

\* the largest number of directories holding a collection.yaml
MaxCollections == 2

\* the largest number of directories holding a publication.yaml
MaxPublications == 2

\* ---------------------------------------------------------------------------
\* Python values

PyNone == [kind |-> "none"]
PyStr(s) == [kind |-> "str", v |-> s]
PyBool(b) == [kind |-> "bool", v |-> b]
PyDatetime(n) == [kind |-> "datetime", v |-> n]
PyDate(n) == [kind |-> "date", v |-> n]
PyList(s) == [kind |-> "list", v |-> s]
PyDict(f) == [kind |-> "dict", v |-> f]
PyPath(s) == [kind |-> "path", v |-> s]

EmptyDict == PyDict(<<>>)

\* a dictionary together with the order in which the file declares its keys
PyOrderedDict(f, order) == [kind |-> "dict", v |-> f, order |-> order]

\* a string that holds ${...} placeholders: its words and placeholders in order; the
\* string is their concatenation with single blanks between them
Text(s) == [kind |-> "text", v |-> s]
Placeholder(dotted_path) == [kind |-> "ref", v |-> dotted_path]
PyTemplate(parts) == [kind |-> "template", v |-> parts]

IsDict(x) == x.kind = "dict"
IsList(x) == x.kind = "list"
IsNone(x) == x.kind = "none"

\* key in dct
HasKey(dct, key) == key \in DOMAIN dct.v

\* dct.get(key, dflt)
GetOr(dct, key, dflt) == IF HasKey(dct, key) THEN dct.v[key] ELSE dflt

\* {**a, **b}
Merge(a, b) ==
    PyDict([k \in DOMAIN a.v \cup DOMAIN b.v |->
              IF k \in DOMAIN b.v THEN b.v[k] ELSE a.v[k]])

\* dct[key] = value
SetItem(dct, key, value) == Merge(dct, PyDict([k \in {key} |-> value]))

\* the elements of a list, as a set
Elements(lst) == {lst.v[i] : i \in DOMAIN lst.v}

\* d is a leading part of the path p
IsPrefix(d, p) == Len(d) <= Len(p) /\ SubSeq(p, 1, Len(d)) = d

\* ---------------------------------------------------------------------------
\* exceptions

\* an exception object of the resolution engine; str(exc) is StrOf(exc)
ResolutionError(reason, keypath) ==
    [kind |-> "exc", type |-> "ResolutionError", reason |-> reason, keypath |-> keypath]

InvalidSchemaError(reason, keypath) ==
    [kind |-> "exc", type |-> "InvalidSchemaError", reason |-> reason, keypath |-> keypath]

YAMLError == [kind |-> "exc", type |-> "YAMLError", reason |-> "syntax", keypath |-> <<>>]

\* str(exc): the message text, kept as the pair of its parts
StrOf(exc) == [kind |-> "str", v |-> <<exc.reason, exc.keypath>>]

Ok(value) == [ok |-> TRUE, val |-> value]
Fail(exc) == [ok |-> FALSE, exc |-> exc]

Returned(value) == [status |-> "return", value |-> value]
Raised(exc) == [status |-> "raise", exc |-> exc]

\* ---------------------------------------------------------------------------
\* the resolution engine (dictconfig.resolve, dictconfig.validate_schema)

SchemaTypes == {"string", "integer", "boolean", "date", "datetime", "dict", "list", "any"}

\* the text of a timestamp that the datetime parser accepts, and its value
IsoDatetimeText == "2021-01-05 23:00:00"
IsoDatetimeValue == PyDatetime(1)

\* schema["nullable"], default false
IsNullable(schema) ==
    /\ HasKey(schema, "nullable")
    /\ schema.v["nullable"].kind = "bool"
    /\ schema.v["nullable"].v

\* a scalar leaf: raw must already be of the declared type, or be text that the
\* type's parser accepts
resolve_leaf(raw, schema, keypath) ==
    LET type == schema.v["type"].v IN
    CASE type = "string" /\ raw.kind = "str" -> Ok(raw)
      [] type = "boolean" /\ raw.kind = "bool" -> Ok(raw)
      [] type = "integer" /\ raw.kind = "int" -> Ok(raw)
      [] type = "date" /\ raw.kind = "date" -> Ok(raw)
      [] type = "datetime" /\ raw.kind = "datetime" -> Ok(raw)
      [] type = "datetime" /\ raw = PyStr(IsoDatetimeText) -> Ok(IsoDatetimeValue)
      [] OTHER -> Fail(ResolutionError("Cannot parse into the expected type.", keypath))

\* the schema of everything below a node of type any
AnySchema == PyDict([type |-> PyStr("any")])

\* the name of the i-th element of a list in a dotted path and in a keypath
IndexName(i) == ToString(i - 1)

\* follow the components of a dotted path through an already resolved structure
RECURSIVE lookup(_, _)
lookup(value, components) ==
    IF components = <<>> THEN Ok(value)
    ELSE
    LET c == Head(components)
        rest == Tail(components)
    IN
    IF value.kind = "dict" THEN
        IF c \in DOMAIN value.v THEN lookup(value.v[c], rest) ELSE Fail(c)
    ELSE IF value.kind = "list" THEN
        IF \E i \in DOMAIN value.v : IndexName(i) = c
        THEN lookup(value.v[CHOOSE i \in DOMAIN value.v : IndexName(i) = c], rest)
        ELSE Fail(c)
    ELSE IF value.kind \in {"Publication", "UnbuiltArtifact"} THEN
        IF c \in DOMAIN value \ {"kind"} THEN lookup(value[c], rest) ELSE Fail(c)
    ELSE Fail(c)

\* the outcomes of looking for a dotted path in the document being resolved
Located(raw, schema, keypath) ==
    [found |-> "node", raw |-> raw, schema |-> schema, keypath |-> keypath]
Defaulted(value) == [found |-> "default", value |-> value]
NotLocated == [found |-> "missing"]

\* the raw value and the schema node at a dotted path of the document being resolved
RECURSIVE locate(_, _, _, _)
locate(raw, schema, components, keypath) ==
    IF components = <<>> THEN Located(raw, schema, keypath)
    ELSE
    LET c == Head(components)
        rest == Tail(components)
        type == schema.v["type"].v
        required == GetOr(schema, "required_keys", EmptyDict).v
        optional == GetOr(schema, "optional_keys", EmptyDict).v
    IN
    IF IsDict(raw) /\ type \in {"dict", "any"} THEN
        IF c \in DOMAIN raw.v THEN
            IF type = "any" THEN locate(raw.v[c], AnySchema, rest, Append(keypath, c))
            ELSE IF c \in DOMAIN required
            THEN locate(raw.v[c], required[c], rest, Append(keypath, c))
            ELSE IF c \in DOMAIN optional
            THEN locate(raw.v[c], optional[c], rest, Append(keypath, c))
            ELSE IF HasKey(schema, "extra_keys_schema")
            THEN locate(raw.v[c], schema.v["extra_keys_schema"], rest, Append(keypath, c))
            ELSE NotLocated
        ELSE IF type = "dict" /\ c \in DOMAIN optional /\ HasKey(optional[c], "default") THEN
            LET below == lookup(optional[c].v["default"], rest) IN
            IF below.ok THEN Defaulted(below.val) ELSE NotLocated
        ELSE NotLocated
    ELSE IF IsList(raw) /\ type \in {"list", "any"} THEN
        IF \E i \in DOMAIN raw.v : IndexName(i) = c
        THEN locate(raw.v[CHOOSE i \in DOMAIN raw.v : IndexName(i) = c],
                    IF type = "any" THEN AnySchema ELSE schema.v["element_schema"],
                    rest, Append(keypath, c))
        ELSE NotLocated
    ELSE NotLocated

\* a reference to a position of the document that has still to be resolved
Pending(target) == [ok |-> TRUE, val |-> target, pending |-> TRUE]
IsPending(outcome) == "pending" \in DOMAIN outcome

\* the position p of the document is declared before the position q
RECURSIVE DeclaredBefore(_, _, _)
DeclaredBefore(raw, p, q) ==
    IF p = <<>> \/ q = <<>> \/ ~IsDict(raw) THEN TRUE
    ELSE IF Head(p) = Head(q) THEN
        IF Head(p) \in DOMAIN raw.v
        THEN DeclaredBefore(raw.v[Head(p)], Tail(p), Tail(q))
        ELSE TRUE
    ELSE IF "order" \in DOMAIN raw THEN
        \E i, j \in DOMAIN raw.order :
            i < j /\ raw.order[i] = Head(p) /\ raw.order[j] = Head(q)
    ELSE TRUE

\* a variant that resolves ${this...} only to what the document declares earlier
resolve_this_declared_earlier(components, keypath, ctx) ==
    LET target == locate(ctx.raw, ctx.schema, components, <<>>) IN
    IF target.found = "missing"
    THEN Fail(ResolutionError("Unresolvable reference.", keypath))
    ELSE IF target.found = "default" THEN Ok(target.value)
    ELSE IF ~DeclaredBefore(ctx.raw, target.keypath, keypath)
    THEN Fail(ResolutionError("Unresolvable reference.", keypath))
    ELSE Pending(target)

\* the outcome of a reference, met at keypath, to the target found in the document;
\* resolving holds the keypaths whose resolution is under way
refer_to(target, keypath, resolving) ==
    IF target.found = "missing"
    THEN Fail(ResolutionError("Unresolvable reference.", keypath))
    ELSE IF target.found = "default" THEN Ok(target.value)
    ELSE IF \E r \in resolving : IsPrefix(target.keypath, r)
    THEN Fail(ResolutionError("Cyclic reference.", keypath))
    ELSE Pending(target)

\* ${this.<components>}: the referenced position of the document is to be resolved
\* on demand
resolve_this(components, keypath, ctx) ==
    refer_to(locate(ctx.raw, ctx.schema, components, <<>>), keypath, ctx.resolving)

\* the value of a ${dotted.path} placeholder met at keypath, or the position of the
\* document that holds it
resolve_reference(dotted_path, keypath, ctx) ==
    LET namespace == Head(dotted_path)
        rest == Tail(dotted_path)
    IN
    IF namespace \in {"this", "self"} THEN resolve_this(rest, keypath, ctx)
    ELSE IF ~HasKey(ctx.env, namespace)
    THEN Fail(ResolutionError("Unresolvable reference.", keypath))
    ELSE
    LET found == lookup(ctx.env.v[namespace], rest) IN
    IF found.ok THEN Ok(found.val)
    ELSE Fail(ResolutionError("Unresolvable reference.", keypath))

\* str(value)
str_of(value) ==
    CASE value.kind = "str" -> value.v
      [] value.kind = "bool" -> IF value.v THEN "True" ELSE "False"
      [] value.kind = "none" -> "None"
      [] value = IsoDatetimeValue -> IsoDatetimeText
      [] value.kind \in {"date", "datetime", "int"} -> value.kind \o " " \o ToString(value.v)
      [] OTHER -> value.kind

\* " ".join(words)
RECURSIVE join(_)
join(words) ==
    IF words = <<>> THEN ""
    ELSE IF Len(words) = 1 THEN words[1]
    ELSE words[1] \o " " \o join(Tail(words))

\* a variant that puts the string form in, also for a placeholder that is the whole string
substitute_as_text(parts, values) ==
    PyStr(join([i \in DOMAIN parts |->
                  IF parts[i].kind = "ref" THEN str_of(values[i]) ELSE parts[i].v]))

\* the string with the values of its placeholders put in: a placeholder that is the
\* whole string gives the value itself, any other the text around the string forms
substitute(parts, values) ==
    IF Len(parts) = 1 /\ parts[1].kind = "ref" THEN values[1]
    ELSE PyStr(join([i \in DOMAIN parts |->
                       IF parts[i].kind = "ref" THEN str_of(values[i]) ELSE parts[i].v]))

\* interpolation of a string leaf; referenced holds the outcome of resolving each of
\* its placeholders
interpolate(parts, keypath, referenced) ==
    LET refs == {i \in DOMAIN parts : parts[i].kind = "ref"}
        failed == {i \in refs : ~referenced[i].ok}
    IN
    IF failed # {} THEN referenced[CHOOSE i \in failed : \A j \in failed : i <= j]
    ELSE Ok(substitute(parts, [i \in DOMAIN parts |->
                                 IF i \in refs THEN referenced[i].val ELSE PyNone]))

\* the integer literals of the modelled files
IntegerLiteral == ("-1" :> -1) @@ ("0" :> 0) @@ ("1" :> 1) @@ ("3" :> 3) @@ ("7" :> 7)

Units == {"hour", "hours", "day", "days"}
Directions == {"before", "after"}

\* the shape INTEGER UNIT DIRECTION ${reference} of a relative date
IsRelativeShape(parts) ==
    /\ Len(parts) = 4
    /\ \A i \in 1..3 : parts[i].kind = "text"
    /\ parts[4].kind = "ref"

\* INTEGER of the smart-date grammar
parse_count(word) ==
    IF word \in DOMAIN IntegerLiteral /\ IntegerLiteral[word] >= 0
    THEN Ok(IntegerLiteral[word])
    ELSE Fail(word)

\* a variant that moves a date by hours, taking the date as its midnight
shift_from_midnight(reference, count, unit, direction) ==
    LET sign == IF direction = "before" THEN 0 - 1 ELSE 1 IN
    IF reference.kind = "datetime" THEN
        Ok(PyDatetime(reference.v
                        + sign * count * (IF unit \in {"day", "days"} THEN 24 ELSE 1)))
    ELSE IF reference.kind = "date" /\ unit \in {"day", "days"} THEN
        Ok(PyDate(reference.v + sign * count))
    ELSE IF reference.kind = "date" THEN
        Ok(PyDatetime(24 * reference.v + sign * count))
    ELSE Fail(reference.kind)

\* the reference moved by count units; a datetime counts hours, a date counts days
shift(reference, count, unit, direction) ==
    LET sign == IF direction = "before" THEN 0 - 1 ELSE 1 IN
    IF reference.kind = "datetime" THEN
        Ok(PyDatetime(reference.v
                        + sign * count * (IF unit \in {"day", "days"} THEN 24 ELSE 1)))
    ELSE IF reference.kind = "date" /\ unit \in {"day", "days"} THEN
        Ok(PyDate(reference.v + sign * count))
    ELSE Fail(reference.kind)

\* a relative date: the reference is resolved first, then moved; reference is the
\* outcome of resolving the placeholder
resolve_relative(parts, keypath, reference) ==
    LET count == parse_count(parts[1].v) IN
    IF ~count.ok \/ parts[2].v \notin Units \/ parts[3].v \notin Directions
    THEN Fail(ResolutionError("Invalid relative date.", keypath))
    ELSE
    IF ~reference.ok THEN reference
    ELSE
    LET shifted == shift(reference.val, count.val, parts[2].v, parts[3].v) IN
    IF shifted.ok THEN shifted
    ELSE Fail(ResolutionError("Cannot move the referenced value.", keypath))

\* the interpolated string of a leaf, checked against the leaf's schema
resolve_interpolated(value, schema, keypath) ==
    IF ~value.ok THEN value
    ELSE IF IsNone(value.val) THEN
        IF IsNullable(schema) THEN Ok(PyNone)
        ELSE Fail(ResolutionError("Unexpectedly null.", keypath))
    ELSE resolve_leaf(value.val, schema, keypath)

\* a node of type any passes through unchanged: strings inside it are not interpolated
RECURSIVE resolve_node(_, _, _, _)
resolve_node(raw, schema, keypath, ctx) ==
    LET type == schema.v["type"].v
        required == GetOr(schema, "required_keys", EmptyDict).v
        optional == GetOr(schema, "optional_keys", EmptyDict).v
        expected == DOMAIN required \cup DOMAIN optional
    IN
    IF IsNone(raw) THEN
        IF IsNullable(schema) THEN Ok(PyNone)
        ELSE Fail(ResolutionError("Unexpectedly null.", keypath))
    ELSE IF type = "any" THEN Ok(raw)
    ELSE IF type = "dict" THEN
        IF ~IsDict(raw) THEN
            Fail(ResolutionError("Expected a dictionary.", keypath))
        ELSE
        LET present == DOMAIN raw.v
            extra == present \ expected
            missing == DOMAIN required \ present
            child_schema(k) ==
                IF k \in DOMAIN required THEN required[k]
                ELSE IF k \in DOMAIN optional THEN optional[k]
                ELSE schema.v["extra_keys_schema"]
        IN
        IF extra # {} /\ ~HasKey(schema, "extra_keys_schema") THEN
            Fail(ResolutionError("Unexpected extra key.",
                                 Append(keypath, CHOOSE k \in extra : TRUE)))
        ELSE IF missing # {} THEN
            Fail(ResolutionError("Missing required key.",
                                 Append(keypath, CHOOSE k \in missing : TRUE)))
        ELSE
        LET child == [k \in present |->
                        resolve_node(raw.v[k], child_schema(k), Append(keypath, k), ctx)]
            failed == {k \in present : ~child[k].ok}
            defaulted == {k \in DOMAIN optional \ present : HasKey(optional[k], "default")}
        IN
        IF failed # {} THEN child[CHOOSE k \in failed : TRUE]
        ELSE Ok(PyDict([k \in present \cup defaulted |->
                          IF k \in present THEN child[k].val
                          ELSE optional[k].v["default"]]))
    ELSE IF type = "list" THEN
        IF ~IsList(raw) THEN
            Fail(ResolutionError("Expected a list.", keypath))
        ELSE
        LET child == [i \in DOMAIN raw.v |->
                        resolve_node(raw.v[i], schema.v["element_schema"],
                                     Append(keypath, IndexName(i)), ctx)]
            failed == {i \in DOMAIN raw.v : ~child[i].ok}
        IN
        IF failed # {} THEN child[CHOOSE i \in failed : \A j \in failed : i <= j]
        ELSE Ok(PyList([i \in DOMAIN raw.v |-> child[i].val]))
    ELSE IF raw.kind = "template" THEN
        LET inner == [ctx EXCEPT !.resolving = @ \cup {keypath}]
            on_demand(outcome) ==
                IF IsPending(outcome)
                THEN resolve_node(outcome.val.raw, outcome.val.schema, outcome.val.keypath,
                                  inner)
                ELSE outcome
            referenced == [i \in {j \in DOMAIN raw.v : raw.v[j].kind = "ref"} |->
                             on_demand(resolve_reference(raw.v[i].v, keypath, inner))]
        IN
        IF type \in {"date", "datetime"} /\ IsRelativeShape(raw.v)
        THEN resolve_relative(raw.v, keypath, referenced[4])
        ELSE resolve_interpolated(interpolate(raw.v, keypath, referenced), schema, keypath)
    ELSE resolve_leaf(raw, schema, keypath)

\* dictconfig.resolve(raw_cfg, schema, external_variables)
resolve(raw_cfg, schema, external_variables) ==
    resolve_node(raw_cfg, schema, <<>>,
                 [raw |-> raw_cfg, schema |-> schema, env |-> external_variables,
                  resolving |-> {}])

\* the keys a schema node may carry
SchemaKeys(type) ==
    {"type", "nullable", "default"} \cup
    (CASE type = "dict" -> {"required_keys", "optional_keys", "extra_keys_schema"}
       [] type = "list" -> {"element_schema"}
       [] OTHER -> {})

RECURSIVE IsValidSchema(_)
IsValidSchema(schema) ==
    /\ IsDict(schema)
    /\ HasKey(schema, "type")
    /\ schema.v["type"].kind = "str"
    /\ schema.v["type"].v \in SchemaTypes
    /\ DOMAIN schema.v \subseteq SchemaKeys(schema.v["type"].v)
    /\ HasKey(schema, "nullable") => schema.v["nullable"].kind = "bool"
    /\ \A group \in {"required_keys", "optional_keys"} :
          HasKey(schema, group) =>
             /\ IsDict(schema.v[group])
             /\ \A k \in DOMAIN schema.v[group].v : IsValidSchema(schema.v[group].v[k])
    /\ \A sub \in {"extra_keys_schema", "element_schema"} :
          HasKey(schema, sub) => IsValidSchema(schema.v[sub])
    /\ (schema.v["type"].v = "list") => HasKey(schema, "element_schema")

\* dictconfig.validate_schema(schema): raises InvalidSchemaError on a bad schema
validate_schema(schema) ==
    IF IsValidSchema(schema) THEN Ok(PyNone)
    ELSE Fail(InvalidSchemaError("Invalid schema.", <<>>))

\* ---------------------------------------------------------------------------
\* _discover/_io.py: collection files

\* MalformedFileError(path, reason)
MalformedFileError(path_, reason_) ==
    [kind |-> "exc", type |-> "MalformedFileError", path |-> path_, reason |-> reason_]

ListOfStringsSchema == PyDict([type |-> PyStr("list"),
                               element_schema |-> PyDict([type |-> PyStr("string")])])

\* a variant of the publication-spec schema whose is_ordered and
\* allow_unspecified_artifacts defaults are true
PublicationSpecSchemaWithOtherDefaults ==
    PyDict([
        type |-> PyStr("dict"),
        required_keys |-> PyDict([required_artifacts |-> ListOfStringsSchema]),
        optional_keys |-> PyDict([
            optional_artifacts |-> SetItem(ListOfStringsSchema, "default", PyList(<<>>)),
            metadata_schema |-> PyDict([
                type |-> PyStr("dict"),
                extra_keys_schema |-> PyDict([type |-> PyStr("any")]),
                default |-> PyNone,
                nullable |-> PyBool(TRUE)]),
            allow_unspecified_artifacts |-> PyDict([type |-> PyStr("boolean"),
                                                    default |-> PyBool(TRUE)]),
            is_ordered |-> PyDict([type |-> PyStr("boolean"), default |-> PyBool(TRUE)])])])

_PUBLICATION_SPEC_SCHEMA ==
    PyDict([
        type |-> PyStr("dict"),
        required_keys |-> PyDict([required_artifacts |-> ListOfStringsSchema]),
        optional_keys |-> PyDict([
            optional_artifacts |-> SetItem(ListOfStringsSchema, "default", PyList(<<>>)),
            metadata_schema |-> PyDict([
                type |-> PyStr("dict"),
                extra_keys_schema |-> PyDict([type |-> PyStr("any")]),
                default |-> PyNone,
                nullable |-> PyBool(TRUE)]),
            allow_unspecified_artifacts |-> PyDict([type |-> PyStr("boolean"),
                                                    default |-> PyBool(FALSE)]),
            is_ordered |-> PyDict([type |-> PyStr("boolean"), default |-> PyBool(FALSE)])])])

_COLLECTION_FILE_DICTCONFIG_SCHEMA ==
    PyDict([type |-> PyStr("dict"),
            required_keys |-> PyDict([publication_spec |-> _PUBLICATION_SPEC_SCHEMA])])

\* yaml.load(fileobj): the loaded value, or YAMLError on a syntax error
YamlSyntaxError == [kind |-> "yaml_syntax_error"]
yaml_load(text) == IF text = YamlSyntaxError THEN Fail(YAMLError) ELSE Ok(text)

\* a variant that lets the InvalidSchemaError escape as it is
raise_invalid_schema_unchanged(path_, exc) == Raised(exc)

\* the except clause of the metadata_schema check in read_collection_file
raise_invalid_metadata_schema(path_, exc) == Raised(MalformedFileError(exc, path_))

\* a variant that answers every file, also one it cannot load, with a permissive
\* specification
read_collection_file_lenient(path_, text, vars) ==
    Returned(PyDict([publication_spec |->
                       PyDict([required_artifacts |-> PyList(<<>>),
                               metadata_schema |-> PyNone,
                               allow_unspecified_artifacts |-> PyBool(TRUE)])]))

read_collection_file(path_, text, vars) ==
    LET loaded == yaml_load(text) IN
    IF ~loaded.ok THEN Raised(loaded.exc)
    ELSE
    LET resolved == resolve(loaded.val, _COLLECTION_FILE_DICTCONFIG_SCHEMA,
                            PyDict([vars |-> vars]))
    IN
    IF ~resolved.ok THEN Raised(MalformedFileError(path_, StrOf(resolved.exc)))
    ELSE
    LET metadata_schema == resolved.val.v["publication_spec"].v["metadata_schema"] IN
    IF IsNone(metadata_schema) THEN Returned(resolved.val)
    ELSE
    LET checked == validate_schema(Merge(PyDict([type |-> PyStr("dict")]), metadata_schema)) IN
    IF ~checked.ok THEN raise_invalid_metadata_schema(path_, checked.exc)
    ELSE Returned(resolved.val)

\* ---------------------------------------------------------------------------
\* _discover/_io.py: publication files

\* a variant of the artifact schema that lets any further field through
_ARTIFACT_SCHEMA_WITH_EXTRA_KEYS ==
    PyDict([
        type |-> PyStr("dict"),
        extra_keys_schema |-> PyDict([type |-> PyStr("any")]),
        optional_keys |-> PyDict([
            path |-> PyDict([type |-> PyStr("string"), nullable |-> PyBool(TRUE),
                             default |-> PyNone]),
            recipe |-> PyDict([type |-> PyStr("string"), nullable |-> PyBool(TRUE),
                               default |-> PyNone]),
            ready |-> PyDict([type |-> PyStr("boolean"), default |-> PyBool(TRUE)]),
            missing_ok |-> PyDict([type |-> PyStr("boolean"), default |-> PyBool(FALSE)]),
            release_time |-> PyDict([type |-> PyStr("datetime"), nullable |-> PyBool(TRUE),
                                     default |-> PyNone])])])

_ARTIFACT_DICTCONFIG_SCHEMA ==
    PyDict([
        type |-> PyStr("dict"),
        optional_keys |-> PyDict([
            path |-> PyDict([type |-> PyStr("string"), nullable |-> PyBool(TRUE),
                             default |-> PyNone]),
            recipe |-> PyDict([type |-> PyStr("string"), nullable |-> PyBool(TRUE),
                               default |-> PyNone]),
            ready |-> PyDict([type |-> PyStr("boolean"), default |-> PyBool(TRUE)]),
            missing_ok |-> PyDict([type |-> PyStr("boolean"), default |-> PyBool(FALSE)]),
            release_time |-> PyDict([type |-> PyStr("datetime"), nullable |-> PyBool(TRUE),
                                     default |-> PyNone])])])

\* {name: _ARTIFACT_DICTCONFIG_SCHEMA for name in names}; iterating a dictionary
\* gives its keys
ArtifactKeys(names) ==
    LET keys == IF IsDict(names) THEN DOMAIN names.v ELSE {e.v : e \in Elements(names)} IN
    PyDict([k \in keys |-> _ARTIFACT_DICTCONFIG_SCHEMA])

\* a variant that lists the required artifacts among the optional keys
ArtifactsSchemaWithoutRequiredKeys(spec) ==
    LET artifacts_schema ==
            PyDict([type |-> PyStr("dict"),
                    required_keys |-> EmptyDict,
                    optional_keys |-> Merge(ArtifactKeys(spec.v["required_artifacts"]),
                                            ArtifactKeys(spec.v["optional_artifacts"]))])
    IN
    IF spec.v["allow_unspecified_artifacts"].v
    THEN SetItem(artifacts_schema, "extra_keys_schema", _ARTIFACT_DICTCONFIG_SCHEMA)
    ELSE artifacts_schema

\* a variant that sets extra_keys_schema whatever allow_unspecified_artifacts is
ArtifactsSchemaAlwaysOpen(spec) ==
    PyDict([type |-> PyStr("dict"),
            required_keys |-> ArtifactKeys(spec.v["required_artifacts"]),
            optional_keys |-> ArtifactKeys(spec.v["optional_artifacts"]),
            extra_keys_schema |-> _ARTIFACT_DICTCONFIG_SCHEMA])

_make_artifacts_dictconfig_schema(spec) ==
    LET artifacts_schema ==
            PyDict([type |-> PyStr("dict"),
                    required_keys |-> ArtifactKeys(spec.v["required_artifacts"]),
                    optional_keys |-> ArtifactKeys(spec.v["optional_artifacts"])])
    IN
    IF spec.v["allow_unspecified_artifacts"].v
    THEN SetItem(artifacts_schema, "extra_keys_schema", _ARTIFACT_DICTCONFIG_SCHEMA)
    ELSE artifacts_schema

_make_publication_dictconfig_schema(spec) ==
    LET artifacts_schema == _make_artifacts_dictconfig_schema(spec)
        optional_keys ==
            PyDict([ready |-> PyDict([type |-> PyStr("boolean"), default |-> PyBool(TRUE)]),
                    release_time |-> PyDict([type |-> PyStr("datetime"),
                                             nullable |-> PyBool(TRUE),
                                             default |-> PyNone])])
        metadata ==
            IF ~IsNone(spec.v["metadata_schema"])
            THEN Merge(PyDict([type |-> PyStr("dict")]), spec.v["metadata_schema"])
            ELSE PyDict([type |-> PyStr("any"), default |-> EmptyDict])
    IN
    PyDict([type |-> PyStr("dict"),
            required_keys |-> PyDict([artifacts |-> artifacts_schema]),
            optional_keys |-> SetItem(optional_keys, "metadata", metadata)])

_PERMISSIVE_PUBLICATION_SPEC ==
    PyDict([required_artifacts |-> PyList(<<>>),
            optional_artifacts |-> EmptyDict,
            allow_unspecified_artifacts |-> PyBool(TRUE),
            metadata_schema |-> PyDict([extra_keys_schema |-> PyDict([type |-> PyStr("any")])])])

\* a variant that leaves null artifact paths as they are
PathsLeftNull(resolved) == resolved

\* a variant that sets every artifact path to the artifact's key
PathsAlwaysKey(resolved) ==
    LET artifacts == resolved.v["artifacts"] IN
    SetItem(resolved, "artifacts",
        PyDict([key \in DOMAIN artifacts.v |-> SetItem(artifacts.v[key], "path", PyStr(key))]))

\* a variant that also clears every artifact path the file gave
PathsResetWhenGiven(resolved) ==
    LET artifacts == resolved.v["artifacts"] IN
    SetItem(resolved, "artifacts",
        PyDict([key \in DOMAIN artifacts.v |->
                  IF IsNone(artifacts.v[key].v["path"])
                  THEN SetItem(artifacts.v[key], "path", PyStr(key))
                  ELSE SetItem(artifacts.v[key], "path", PyNone)]))

\* the loop that replaces a null artifact path by the artifact's key
default_paths(resolved) ==
    LET artifacts == resolved.v["artifacts"] IN
    SetItem(resolved, "artifacts",
        PyDict([key \in DOMAIN artifacts.v |->
                  IF IsNone(artifacts.v[key].v["path"])
                  THEN SetItem(artifacts.v[key], "path", PyStr(key))
                  ELSE artifacts.v[key]]))

\* a variant that never hands the previous publication to the engine
external_variables_without_previous(vars, previous_) == PyDict([vars |-> vars])

\* the external variables handed to the engine: vars, and previous when there is one
external_variables_of(vars, previous_) ==
    IF IsNone(previous_) THEN PyDict([vars |-> vars])
    ELSE PyDict([vars |-> vars, previous |-> previous_])

\* a variant that lets the engine's error escape as it is
raise_unchanged(path_, exc) == Raised(exc)

\* except dictconfig.exceptions.ResolutionError as exc: raise MalformedFileError(path, str(exc))
raise_malformed(path_, exc) == Raised(MalformedFileError(path_, StrOf(exc)))

read_publication_file(path_, spec_arg, text, vars, previous_) ==
    LET spec0 == IF IsNone(spec_arg) THEN _PERMISSIVE_PUBLICATION_SPEC ELSE spec_arg
        spec == resolve(spec0, _PUBLICATION_SPEC_SCHEMA, EmptyDict)
    IN
    IF ~spec.ok THEN Raised(MalformedFileError(path_, StrOf(spec.exc)))
    ELSE
    LET loaded == yaml_load(text) IN
    IF ~loaded.ok THEN Raised(MalformedFileError(path_, StrOf(loaded.exc)))
    ELSE
    LET external_variables == external_variables_of(vars, previous_)
        dictconfig_schema == _make_publication_dictconfig_schema(spec.val)
        resolved == resolve(loaded.val, dictconfig_schema, external_variables)
    IN
    IF ~resolved.ok THEN raise_malformed(path_, resolved.exc)
    ELSE Returned(default_paths(resolved.val))

\* ---------------------------------------------------------------------------
\* core/_io.py: the schema of a publication file

_PERMISSIVE_PUBLICATION_SCHEMA ==
    PyDict([required_artifacts |-> PyList(<<>>),
            optional_artifacts |-> EmptyDict,
            allow_unspecified_artifacts |-> PyBool(TRUE),
            metadata_schema |-> PyDict([extra_keys_schema |-> PyDict([type |-> PyStr("any")])])])

_DEFAULT_PUBLICATION_SCHEMA ==
    PyDict([required_artifacts |-> PyList(<<>>),
            optional_artifacts |-> EmptyDict,
            allow_unspecified_artifacts |-> PyBool(FALSE),
            metadata_schema |-> EmptyDict])

\* for key in _DEFAULT_PUBLICATION_SCHEMA.keys(): if key not in publication_schema:
\* publication_schema[key] = _DEFAULT_PUBLICATION_SCHEMA[key]
with_default_keys(publication_schema) == Merge(_DEFAULT_PUBLICATION_SCHEMA, publication_schema)

\* {name: _ARTIFACT_SCHEMA for name in names}, nothing when names is None
ArtifactSchemas(names) == IF IsNone(names) THEN EmptyDict ELSE ArtifactKeys(names)

_make_artifacts_schema(publication_schema) ==
    LET artifacts_schema ==
            PyDict([type |-> PyStr("dict"),
                    required_keys |-> ArtifactSchemas(publication_schema.v["required_artifacts"]),
                    optional_keys |-> ArtifactSchemas(publication_schema.v["optional_artifacts"])])
    IN
    IF publication_schema.v["allow_unspecified_artifacts"].v
    THEN SetItem(artifacts_schema, "extra_keys_schema", _ARTIFACT_DICTCONFIG_SCHEMA)
    ELSE artifacts_schema

\* the value returned, and the dictionary the caller passed as the call leaves it
_make_dictconfig_scheme_for_publication_file(publication_schema) ==
    LET own == IF IsNone(publication_schema) THEN _PERMISSIVE_PUBLICATION_SCHEMA
               ELSE publication_schema
        filled == with_default_keys(own)
        metadata ==
            IF ~IsNone(filled.v["metadata_schema"])
            THEN Merge(PyDict([type |-> PyStr("dict")]), filled.v["metadata_schema"])
            ELSE PyDict([type |-> PyStr("any"), default |-> EmptyDict])
    IN
    [schema |-> PyDict([type |-> PyStr("dict"),
                        required_keys |-> PyDict([artifacts |-> _make_artifacts_schema(filled)]),
                        optional_keys |-> PyDict([metadata |-> metadata])]),
     publication_schema |-> IF IsNone(publication_schema) THEN PyNone ELSE filled]

\* ---------------------------------------------------------------------------
\* the inputs of the modelled calls

ArtifactNames == {"homework", "solution", "woo"}

\* artifact definitions as they may appear in publication.yaml
ArtifactDefs ==
    { EmptyDict,
      PyDict([path |-> PyStr("./homework.pdf"), recipe |-> PyStr("make homework")]),
      PyDict([path |-> PyNone, ready |-> PyBool(FALSE)]),
      PyDict([recipe |-> PyNone, missing_ok |-> PyBool(TRUE),
              release_time |-> PyStr(IsoDatetimeText)]),
      PyDict([bogus |-> PyStr("x")]) }

ArtifactMaps ==
    UNION { [names -> ArtifactDefs] :
              names \in {ns \in SUBSET ArtifactNames : Cardinality(ns) <= MaxArtifacts} }

\* what a publication file holds besides its artifacts
TopLevels ==
    { <<>>,
      [metadata |-> PyDict([name |-> PyStr("Homework 01")])],
      [metadata |-> PyDict([name |-> PyStr("Homework 01"), subtitle |-> PyStr("x")])],
      [metadata |-> PyNone],
      [ready |-> PyBool(FALSE), release_time |-> PyDatetime(2)],
      [unknown |-> PyStr("x")] }

PublicationFiles ==
    { Merge(PyDict(top), PyDict([artifacts |-> PyDict(m)])) :
        top \in TopLevels, m \in ArtifactMaps }
    \cup { YamlSyntaxError, PyNone, PyStr("asdksajdjla"), EmptyDict,
           PyDict([artifacts |-> PyStr("x")]) }

\* every dictionary that takes, for each key of some subset of DOMAIN choices,
\* one of the values choices offers for the key
PartialDicts(choices) ==
    UNION { {PyDict(f) : f \in {g \in [keys -> UNION {choices[k] : k \in keys}] :
                                  \A k \in keys : g[k] \in choices[k]}} :
            keys \in SUBSET DOMAIN choices }

NameSchemaFragment ==
    PyDict([required_keys |-> PyDict([name |-> PyDict([type |-> PyStr("string")])])])

\* publication specs a caller may hand to read_publication_file
PublicationSpecs ==
    PartialDicts([
        required_artifacts |-> { PyList(<<>>), PyList(<<PyStr("homework")>>),
                                 PyList(<<PyStr("homework"), PyStr("solution")>>) },
        optional_artifacts |-> { PyList(<<PyStr("solution")>>) },
        allow_unspecified_artifacts |-> { PyBool(TRUE), PyBool(FALSE) },
        metadata_schema |-> { PyNone, NameSchemaFragment } ])
    \cup { PyNone,
           PyDict([required_artifacts |-> PyStr("homework")]),
           PyDict([required_artifacts |-> PyList(<<>>), unknown |-> PyBool(TRUE)]) }

\* publication schemas a caller may hand to the schema builder of core/_io.py
PublicationSchemas ==
    {spec \in PublicationSpecs :
        IsNone(spec) \/ (DOMAIN spec.v \subseteq DOMAIN _DEFAULT_PUBLICATION_SCHEMA.v
                          /\ IsList(GetOr(spec, "required_artifacts", PyList(<<>>))))}

\* the publication_spec entry of a collection file
CollectionSpecs ==
    PartialDicts([
        required_artifacts |-> { PyList(<<>>), PyList(<<PyStr("homework")>>),
                                 PyStr("homework"), PyList(<<PyBool(TRUE)>>) },
        optional_artifacts |-> { PyList(<<PyStr("solution")>>) },
        allow_unspecified_artifacts |-> { PyBool(TRUE), PyBool(FALSE) },
        metadata_schema |-> { PyNone, NameSchemaFragment,
                              PyDict([type |-> PyStr("bogus")]),
                              PyDict([required_keys |-> PyDict([name |-> EmptyDict])]) },
        is_ordered |-> { PyBool(TRUE), PyBool(FALSE), PyStr("yes") } ])

CollectionFiles ==
    { PyDict([publication_spec |-> spec]) : spec \in CollectionSpecs }
    \cup { YamlSyntaxError, PyNone, PyStr("kdjsadkjas"), EmptyDict,
           PyDict([publication_spec |-> PyDict([required_artifacts |-> PyList(<<>>)]),
                   unknown |-> PyBool(TRUE)]) }

PublicationPath == PyPath("homeworks/01-intro/publication.yaml")
CollectionPath == PyPath("homeworks/collection.yaml")

\* ---------------------------------------------------------------------------
\* one call of a reader

NotCalled == [status |-> "none"]

\* the discover variables while no discovery runs
DiscoverIdle ==
    /\ collection_yaml = <<>>
    /\ publication_yaml = <<>>
    /\ queue = <<>>
    /\ found_collections = <<>>
    /\ found_publications = <<>>
    /\ publication_paths = <<>>
    /\ collections = <<>>
    /\ cursor = 0
    /\ read_log = <<>>
    /\ skip_directories = {}
    /\ events = <<>>

Init ==
    /\ pc = "call"
    /\ ret = NotCalled
    /\ DiscoverIdle
    /\ previous = PyNone
    /\ variables = EmptyDict
    /\ \/ /\ fn = "read_publication_file"
          /\ path = PublicationPath
          /\ publication_spec \in PublicationSpecs
          /\ raw_file \in PublicationFiles
       \/ /\ fn = "read_collection_file"
          /\ path = CollectionPath
          /\ publication_spec = PyNone
          /\ raw_file \in CollectionFiles
       \/ /\ fn = "_make_dictconfig_scheme_for_publication_file"
          /\ path = PyNone
          /\ publication_spec \in PublicationSchemas
          /\ raw_file = PyNone

ReadPublicationFile ==
    /\ pc = "call"
    /\ fn = "read_publication_file"
    /\ ret' = read_publication_file(path, publication_spec, raw_file, variables, previous)
    /\ pc' = "done"
    /\ UNCHANGED <<fn, path, publication_spec, raw_file, previous, variables>>
    /\ UNCHANGED discoverVars

ReadCollectionFile ==
    /\ pc = "call"
    /\ fn = "read_collection_file"
    /\ ret' = read_collection_file(path, raw_file, variables)
    /\ pc' = "done"
    /\ UNCHANGED <<fn, path, publication_spec, raw_file, previous, variables>>
    /\ UNCHANGED discoverVars

\* one call of the schema builder of core/_io.py; publication_spec is the
\* dictionary the caller passed, which the call may change
MakeSchemeForPublicationFile ==
    /\ pc = "call"
    /\ fn = "_make_dictconfig_scheme_for_publication_file"
    /\ ret' = Returned(_make_dictconfig_scheme_for_publication_file(publication_spec).schema)
    /\ publication_spec' =
          _make_dictconfig_scheme_for_publication_file(publication_spec).publication_schema
    /\ pc' = "done"
    /\ UNCHANGED <<fn, path, raw_file, previous, variables>>
    /\ UNCHANGED discoverVars

Next == ReadPublicationFile \/ ReadCollectionFile \/ MakeSchemeForPublicationFile

vars == <<readVars, discoverVars>>

Spec == Init /\ [][Next]_vars

\* ---------------------------------------------------------------------------
\* one call of a reader on a file with placeholders and relative dates

\* ${dotted.path} as a whole string, and a relative date
Whole(dotted_path) == PyTemplate(<<Placeholder(dotted_path)>>)
Relative(count, unit, direction, dotted_path) ==
    PyTemplate(<<Text(count), Text(unit), Text(direction), Placeholder(dotted_path)>>)

ThisDue == <<"this", "metadata", "due">>
ThisReleased == <<"this", "metadata", "released">>
PreviousDue == <<"previous", "metadata", "due">>
StartDate == <<"vars", "course", "start_date">>
CourseName == <<"vars", "course", "name">>

\* the values publication.yaml may give to the metadata keys
DueValues ==
    { PyDate(10), PyDatetime(100), Whole(StartDate), Whole(ThisReleased),
      Relative("7", "days", "after", PreviousDue) }

ReleasedValues ==
    { Relative(count, unit, direction, ThisDue) :
        count \in DOMAIN IntegerLiteral \ {"3"}, unit \in Units, direction \in Directions }
    \cup
    { PyDate(3), Whole(ThisDue), Whole(ThisReleased),
      Whole(<<"this", "metadata", "foo">>),
      Relative("1", "days", "after", <<"this", "metadata", "foo">>),
      Relative("3", "hours", "before", PreviousDue),
      Relative("1", "day", "after", StartDate),
      Relative("1", "day", "after", <<"nowhere", "due">>),
      Whole(<<"nowhere", "due">>), Whole(PreviousDue) }

NameValues ==
    { PyStr("Homework 01"), Whole(CourseName),
      PyTemplate(<<Text("Homework in"), Placeholder(CourseName)>>),
      PyTemplate(<<Text("due"), Placeholder(ThisDue), Text("sharp")>>) }

\* the orders in which the file may declare the metadata keys
MetadataOrders == { <<"name", "due", "released">>, <<"released", "due", "name">> }

\* the artifacts of the file
DatedArtifacts ==
    { EmptyDict,
      PyDict([solution |-> PyDict([recipe |-> PyStr("make solution"),
                                   release_time |-> Relative("1", "day", "after", ThisDue)])]),
      PyDict([solution |-> PyDict([recipe |-> PyStr("make solution"),
                                   release_time |-> Relative("-1", "days", "after", ThisDue)])]) }

DatedPublicationFiles ==
    { PyDict([metadata |-> PyOrderedDict([name |-> n, due |-> d, released |-> r], order),
              artifacts |-> artifacts]) :
        n \in NameValues, d \in DueValues, r \in ReleasedValues, order \in MetadataOrders,
        artifacts \in DatedArtifacts }

\* a publication spec whose metadata_schema declares due and released of date_type
DatedSpec(date_type) ==
    PyDict([required_artifacts |-> PyList(<<>>),
            optional_artifacts |-> PyList(<<PyStr("solution")>>),
            metadata_schema |-> PyDict([required_keys |-> PyDict([
                name |-> PyDict([type |-> PyStr("string")]),
                due |-> PyDict([type |-> PyStr(date_type)]),
                released |-> PyDict([type |-> PyStr(date_type)])])])])

\* the previous publication, as read_publication_file returned it
PreviousPublication(due) ==
    PyDict([metadata |-> PyDict([name |-> PyStr("Homework 00"), due |-> due, released |-> due]),
            artifacts |-> EmptyDict, ready |-> PyBool(TRUE), release_time |-> PyNone])

\* the external variables of the caller
CourseVariables ==
    PyDict([course |-> PyDict([name |-> PyStr("DSC 10"), start_date |-> PyDate(5)]),
            external |-> PyDict([optional |-> PyStr("template")])])

\* collection files with placeholders
ThisOptional0 == <<"this", "publication_spec", "optional_artifacts", "0">>
ThisRequired1 == <<"this", "publication_spec", "required_artifacts", "1">>

TemplatedCollectionFiles ==
    { PyDict([publication_spec |->
                PyDict([required_artifacts |-> PyList(<<PyStr("homework"), second>>),
                        optional_artifacts |-> PyList(<<first>>)])]) :
        second \in { PyStr("solution"), Whole(ThisOptional0), Whole(ThisRequired1),
                     Whole(<<"this", "publication_spec", "optional_artifacts", "1">>) },
        first \in { PyStr("template"), Whole(<<"vars", "external", "optional">>),
                    Whole(ThisRequired1),
                    PyTemplate(<<Text("the"), Placeholder(<<"vars", "external", "optional">>)>>) } }

InitResolve ==
    /\ pc = "call"
    /\ ret = NotCalled
    /\ DiscoverIdle
    /\ variables \in {EmptyDict, CourseVariables}
    /\ \/ /\ fn = "read_publication_file"
          /\ path = PublicationPath
          /\ publication_spec \in {DatedSpec("date"), DatedSpec("datetime")}
          /\ raw_file \in DatedPublicationFiles
          /\ previous \in {PyNone, PreviousPublication(PyDate(20)),
                           PreviousPublication(PyDatetime(200))}
       \/ /\ fn = "read_collection_file"
          /\ path = CollectionPath
          /\ publication_spec = PyNone
          /\ raw_file \in TemplatedCollectionFiles
          /\ previous = PyNone

NextResolve == ReadPublicationFile \/ ReadCollectionFile

SpecResolve == InitResolve /\ [][NextResolve]_vars

\* ---------------------------------------------------------------------------
\* properties of the readers

Done(f) == pc = "done" /\ fn = f

RaisedMalformed == ret.status = "raise" /\ ret.exc.type = "MalformedFileError"

\* the names a caller's publication spec lists under key, when it lists any
ListedNames(spec, key) ==
    IF IsDict(spec) /\ HasKey(spec, key) /\ IsList(spec.v[key])
    THEN {e.v : e \in {x \in Elements(spec.v[key]) : x.kind = "str"}}
    ELSE {}

\* the keys of the artifacts map of a file, when it has one
FileArtifactKeys(file) ==
    IF IsDict(file) /\ HasKey(file, "artifacts") /\ IsDict(file.v["artifacts"])
    THEN DOMAIN file.v["artifacts"].v
    ELSE {}

\* C1: whenever a name listed in required_artifacts of the publication spec is not a
\* key of the file's artifacts map, read_publication_file raises MalformedFileError
\* and returns nothing, whatever else the spec and the file contain.
C1_RequiredArtifactEnforced ==
    (/\ Done("read_publication_file")
     /\ ListedNames(publication_spec, "required_artifacts") \ FileArtifactKeys(raw_file) # {})
    => RaisedMalformed

C1_Witness ==
    /\ Done("read_publication_file")
    /\ ListedNames(publication_spec, "required_artifacts") = {"homework", "solution"}
    /\ FileArtifactKeys(raw_file) = {"homework"}
    /\ raw_file.v["artifacts"].v["homework"] \in ArtifactDefs \ {PyDict([bogus |-> PyStr("x")])}
    /\ RaisedMalformed

\* the artifact keys of the file that the spec names neither as required nor optional
UnspecifiedKeys(spec, file) ==
    FileArtifactKeys(file)
      \ (ListedNames(spec, "required_artifacts") \cup ListedNames(spec, "optional_artifacts"))

\* allow_unspecified_artifacts of a caller's spec is literally true
AllowsUnspecified(spec) ==
    /\ HasKey(spec, "allow_unspecified_artifacts")
    /\ spec.v["allow_unspecified_artifacts"] = PyBool(TRUE)

\* the file without its unspecified artifacts
WithoutUnspecified(spec, file) ==
    SetItem(file, "artifacts",
        PyDict([k \in FileArtifactKeys(file) \ UnspecifiedKeys(spec, file) |->
                  file.v["artifacts"].v[k]]))

\* C2: an artifact key of the file that the spec lists neither as required nor as
\* optional is accepted, and is a key of the resolved artifacts, exactly when the
\* spec's allow_unspecified_artifacts is true; when it is false or omitted the call
\* raises MalformedFileError.
C2_UnspecifiedArtifactsIffAllowed ==
    (/\ Done("read_publication_file")
     /\ IsDict(publication_spec)
     /\ UnspecifiedKeys(publication_spec, raw_file) # {})
    => /\ ~AllowsUnspecified(publication_spec) => RaisedMalformed
       /\ ret.status = "return" =>
             /\ AllowsUnspecified(publication_spec)
             /\ UnspecifiedKeys(publication_spec, raw_file)
                   \subseteq DOMAIN ret.value.v["artifacts"].v
       /\ (/\ AllowsUnspecified(publication_spec)
           /\ \A k \in UnspecifiedKeys(publication_spec, raw_file) :
                 resolve(raw_file.v["artifacts"].v[k], _ARTIFACT_DICTCONFIG_SCHEMA,
                         EmptyDict).ok
           /\ read_publication_file(path, publication_spec,
                                    WithoutUnspecified(publication_spec, raw_file),
                                    EmptyDict, previous).status = "return")
          => ret.status = "return"

C2_Witness ==
    /\ Done("read_publication_file")
    /\ IsDict(publication_spec)
    /\ AllowsUnspecified(publication_spec)
    /\ ListedNames(publication_spec, "required_artifacts") = {"homework"}
    /\ "woo" \in UnspecifiedKeys(publication_spec, raw_file)
    /\ ret.status = "return"
    /\ "woo" \in DOMAIN ret.value.v["artifacts"].v

\* the path an artifact definition of the file supplies, PyNone when it supplies none
SuppliedPath(file, key) == GetOr(file.v["artifacts"].v[key], "path", PyNone)

\* C3: in every publication read_publication_file returns, each artifact's path is
\* non-null: the path the file supplies when it supplies one, the artifact's own key
\* when the path is absent or null.
C3_ArtifactPathDefaultsToKey ==
    (Done("read_publication_file") /\ ret.status = "return")
    => \A key \in DOMAIN ret.value.v["artifacts"].v :
          LET resolved_path == ret.value.v["artifacts"].v[key].v["path"] IN
          /\ ~IsNone(resolved_path)
          /\ resolved_path = (IF IsNone(SuppliedPath(raw_file, key)) THEN PyStr(key)
                              ELSE SuppliedPath(raw_file, key))

C3_Witness ==
    /\ Done("read_publication_file")
    /\ ret.status = "return"
    /\ \E k1, k2 \in DOMAIN ret.value.v["artifacts"].v :
          /\ ~HasKey(raw_file.v["artifacts"].v[k1], "path")
          /\ ret.value.v["artifacts"].v[k1].v["path"] = PyStr(k1)
          /\ HasKey(raw_file.v["artifacts"].v[k2], "path")
          /\ IsNone(raw_file.v["artifacts"].v[k2].v["path"])
          /\ ret.value.v["artifacts"].v[k2].v["path"] = PyStr(k2)

\* C4: every failure of read_collection_file or read_publication_file caused by the
\* content of the file or of the supplied spec surfaces as MalformedFileError; no
\* other exception type escapes.
C4_OnlyMalformedFileErrorEscapes ==
    (pc = "done" /\ ret.status = "raise") => ret.exc.type = "MalformedFileError"

\* C5: on every branch of the readers that raises MalformedFileError, the error's
\* path is the path of the file being read and its reason is the string form of the
\* underlying error.
C5_MalformedFileErrorCarriesPathAndReason ==
    (pc = "done" /\ RaisedMalformed)
    => /\ ret.exc.path = path
       /\ ret.exc.reason.kind = "str"

\* the file is a mapping whose artifacts map holds only well-formed definitions
HasWellFormedArtifacts(file) ==
    /\ IsDict(file)
    /\ HasKey(file, "artifacts")
    /\ IsDict(file.v["artifacts"])
    /\ \A k \in DOMAIN file.v["artifacts"].v :
          resolve(file.v["artifacts"].v[k], _ARTIFACT_DICTCONFIG_SCHEMA, EmptyDict).ok

\* C6: called without a publication_spec, read_publication_file substitutes a
\* permissive spec that passes validation against the publication-spec schema, and
\* accepts every file with a well-formed artifacts map, whatever its artifact names
\* and metadata.
C6_PermissiveSpecAcceptsEverything ==
    (/\ Done("read_publication_file")
     /\ IsNone(publication_spec)
     /\ HasWellFormedArtifacts(raw_file)
     /\ DOMAIN raw_file.v \subseteq {"artifacts", "metadata"})
    => /\ resolve(_PERMISSIVE_PUBLICATION_SPEC, _PUBLICATION_SPEC_SCHEMA, EmptyDict).ok
       /\ ret.status = "return"

PublicationKeys == {"metadata", "artifacts", "ready", "release_time"}
ArtifactFields == {"path", "recipe", "ready", "missing_ok", "release_time"}

\* C9: every publication read_publication_file returns has the keys metadata,
\* artifacts, ready and release_time, and every artifact in it has path, recipe,
\* ready, missing_ok and release_time, whichever of them the file omits and whatever
\* metadata_schema the spec carries.
C9_ResolvedPublicationIsComplete ==
    (Done("read_publication_file") /\ ret.status = "return")
    => /\ PublicationKeys \subseteq DOMAIN ret.value.v
       /\ \A key \in DOMAIN ret.value.v["artifacts"].v :
             ArtifactFields \subseteq DOMAIN ret.value.v["artifacts"].v[key].v

\* the documented defaults of the optional publication_spec fields
SpecDefaults ==
    [optional_artifacts |-> PyList(<<>>),
     metadata_schema |-> PyNone,
     allow_unspecified_artifacts |-> PyBool(FALSE),
     is_ordered |-> PyBool(FALSE)]

\* the publication_spec entry of a collection file that is a mapping with one
FileSpec(file) == file.v["publication_spec"]
HasFileSpec(file) ==
    IsDict(file) /\ HasKey(file, "publication_spec") /\ IsDict(FileSpec(file))

IsListOfStrings(x) == IsList(x) /\ \A e \in Elements(x) : e.kind = "str"

\* C10: read_collection_file fills every publication_spec field missing from the file
\* with its documented default, and a missing required_artifacts, or one that is not
\* a list of strings, is an error.
C10_CollectionSpecDefaults ==
    (Done("read_collection_file") /\ HasFileSpec(raw_file))
    => /\ ret.status = "return" =>
             \A k \in DOMAIN SpecDefaults :
                ret.value.v["publication_spec"].v[k] =
                   (IF HasKey(FileSpec(raw_file), k) THEN FileSpec(raw_file).v[k]
                    ELSE SpecDefaults[k])
       /\ (\/ ~HasKey(FileSpec(raw_file), "required_artifacts")
           \/ ~IsListOfStrings(FileSpec(raw_file).v["required_artifacts"]))
          => RaisedMalformed

C10_Witness ==
    /\ Done("read_collection_file")
    /\ HasFileSpec(raw_file)
    /\ DOMAIN FileSpec(raw_file).v = {"required_artifacts"}
    /\ ret.status = "return"
    /\ \A k \in DOMAIN SpecDefaults : ret.value.v["publication_spec"].v[k] = SpecDefaults[k]

\* the value a literal of the file denotes: the text of a timestamp denotes the
\* timestamp, every other literal itself
Denoted(literal) == IF literal = PyStr(IsoDatetimeText) THEN IsoDatetimeValue ELSE literal

\* the optional top-level keys the file supplies, and the optional fields an
\* artifact definition of the file supplies
SuppliedTopLevel(file) == {"ready", "release_time"} \cap DOMAIN file.v
SuppliedFields(file, key) == ArtifactFields \cap DOMAIN file.v["artifacts"].v[key].v

\* the resolved top-level keys and the resolved fields of every artifact equal what
\* the file supplies for them, except the pairs (artifact, field) in exempt
ExplicitValuesKept(exempt) ==
    /\ \A k \in SuppliedTopLevel(raw_file) : ret.value.v[k] = Denoted(raw_file.v[k])
    /\ \A key \in DOMAIN ret.value.v["artifacts"].v :
          \A field \in SuppliedFields(raw_file, key) :
             <<key, field>> \notin exempt =>
                ret.value.v["artifacts"].v[key].v[field] =
                   Denoted(raw_file.v["artifacts"].v[key].v[field])

\* the artifacts whose path the file sets to null
NullPaths(file) ==
    {<<key, "path">> : key \in {k \in FileArtifactKeys(file) :
                                  /\ HasKey(file.v["artifacts"].v[k], "path")
                                  /\ IsNone(file.v["artifacts"].v[k].v["path"])}}

Redeclared(file) ==
    LET metadata == file.v["metadata"]
        n == Len(metadata.order)
    IN
    SetItem(file, "metadata",
            PyOrderedDict(metadata.v, [i \in 1..n |-> metadata.order[n + 1 - i]]))

\* the placeholder of a value that is ${this.metadata.<key>} or a relative date on it
ReferenceOf(value) == value.v[Len(value.v)].v
RefersToMetadata(value) ==
    /\ value.kind = "template"
    /\ Len(value.v) \in {1, 4}
    /\ value.v[Len(value.v)].kind = "ref"
    /\ Len(ReferenceOf(value)) = 3
    /\ SubSeq(ReferenceOf(value), 1, 2) = <<"this", "metadata">>

\* what a value that refers to metadata must resolve to, given the resolved metadata
ExpectedFrom(value, resolved_metadata) ==
    LET referenced == resolved_metadata.v[ReferenceOf(value)[3]] IN
    IF Len(value.v) = 1 THEN referenced
    ELSE shift(referenced, IntegerLiteral[value.v[1].v], value.v[2].v, value.v[3].v).val

RECURSIVE TemplateLeaves(_, _)
TemplateLeaves(value, keypath) ==
    IF value.kind = "template" THEN {[keypath |-> keypath, parts |-> value.v]}
    ELSE IF IsDict(value) THEN
        UNION {TemplateLeaves(value.v[k], Append(keypath, k)) : k \in DOMAIN value.v}
    ELSE IF IsList(value) THEN
        UNION {TemplateLeaves(value.v[i], Append(keypath, IndexName(i))) :
                 i \in DOMAIN value.v}
    ELSE {}

\* the keypaths that the ${this...} placeholders of a leaf name
ThisReferences(parts) ==
    {Tail(p.v) : p \in {q \in {parts[i] : i \in DOMAIN parts} :
                          q.kind = "ref" /\ q.v # <<>> /\ Head(q.v) = "this"}}

\* the pairs (keypath of a leaf, keypath it references)
ReferenceEdges(file) ==
    UNION {{<<l.keypath, r>> : r \in ThisReferences(l.parts)} :
             l \in TemplateLeaves(file, <<>>)}

RECURSIVE ReachedFrom(_, _)
ReachedFrom(edges, seen) ==
    LET more == seen \cup {e[2] : e \in {d \in edges : d[1] \in seen}} IN
    IF more = seen THEN seen ELSE ReachedFrom(edges, more)

\* the keypaths of the leaves that reference themselves, directly or through others
OnCycle(file) ==
    LET edges == ReferenceEdges(file) IN
    {e[1] : e \in {d \in edges : d[1] \in ReachedFrom(edges, {d[2]})}}

HasCycle(file) == OnCycle(file) # {}

\* the file with every leaf at one of the keypaths replaced by plain
RECURSIVE Replaced(_, _, _, _)
Replaced(value, keypath, keypaths, plain) ==
    IF keypath \in keypaths THEN plain
    ELSE IF IsDict(value) THEN
        [value EXCEPT !.v = [k \in DOMAIN value.v |->
                               Replaced(value.v[k], Append(keypath, k), keypaths, plain)]]
    ELSE IF IsList(value) THEN
        [value EXCEPT !.v = [i \in DOMAIN value.v |->
                               Replaced(value.v[i], Append(keypath, IndexName(i)),
                                        keypaths, plain)]]
    ELSE value

\* the relative dates among the leaves at the keypaths all have a count that is not negative
CountsNotNegative(file, keypaths) ==
    \A l \in TemplateLeaves(file, <<>>) :
        (l.keypath \in keypaths /\ IsRelativeShape(l.parts)) => parse_count(l.parts[1].v).ok

\* the call under way, made on another file
ReadAgain(file) ==
    IF fn = "read_collection_file" THEN read_collection_file(path, file, variables)
    ELSE read_publication_file(path, publication_spec, file, variables, previous)

\* a plain value of the type the file's cyclic leaves are declared with
PlainValue ==
    IF fn = "read_collection_file" THEN PyStr("solution")
    ELSE IF publication_spec = DatedSpec("date") THEN PyDate(10)
    ELSE PyDatetime(100)

\* the cycle is the only defect: the file is read without error once the leaves on
\* the cycle are replaced by plain values
CycleIsOnlyDefect ==
    /\ CountsNotNegative(raw_file, OnCycle(raw_file))
    /\ ReadAgain(Replaced(raw_file, <<>>, OnCycle(raw_file), PlainValue)).status = "return"

\* C14: reading a file whose ${this...} references form a cycle (a key referencing
\* itself, or keys referencing each other) ends: no document is returned,
\* MalformedFileError is raised, and when the cycle is the file's only defect the
\* error is the engine's cyclic-reference error.
C14_CycleEndsWithError ==
    (pc = "done" /\ HasCycle(raw_file)) =>
        /\ RaisedMalformed
        /\ CycleIsOnlyDefect => ret.exc.reason.v[1] = "Cyclic reference."

C14_Witness ==
    /\ Done("read_publication_file")
    /\ raw_file.v["metadata"].v["due"] = Whole(ThisReleased)
    /\ raw_file.v["metadata"].v["released"] = Relative("1", "hours", "before", ThisDue)
    /\ OnCycle(raw_file) = {<<"metadata", "due">>, <<"metadata", "released">>}
    /\ CycleIsOnlyDefect
    /\ RaisedMalformed
    /\ ret.exc.reason.v[1] = "Cyclic reference."

\* the value found in a document of nested mappings and lists by following the keys
RECURSIVE ValueAt(_, _)
ValueAt(value, keypath) ==
    IF keypath = <<>> THEN value
    ELSE IF IsDict(value) /\ Head(keypath) \in DOMAIN value.v
    THEN ValueAt(value.v[Head(keypath)], Tail(keypath))
    ELSE IF IsList(value) /\ \E i \in DOMAIN value.v : IndexName(i) = Head(keypath)
    THEN ValueAt(value.v[CHOOSE i \in DOMAIN value.v : IndexName(i) = Head(keypath)],
                 Tail(keypath))
    ELSE PyNone

\* what a placeholder stands for once the file is read: a position of the resolved
\* document, of the caller's variables, or of the previous publication
ReferencedValue(dotted_path, resolved) ==
    CASE Head(dotted_path) = "this" -> ValueAt(resolved, Tail(dotted_path))
      [] Head(dotted_path) = "vars" -> ValueAt(variables, Tail(dotted_path))
      [] Head(dotted_path) = "previous" -> ValueAt(previous, Tail(dotted_path))
      [] OTHER -> PyNone

\* a date moved by whole days, a datetime by hours (a day is 24 hours)
Moved(reference, n, unit, direction) ==
    LET size == IF reference.kind = "datetime" /\ unit \in {"day", "days"} THEN 24 ELSE 1
        delta == IF direction = "after" THEN n * size ELSE 0 - n * size
    IN [kind |-> reference.kind, v |-> reference.v + delta]

\* the leaves of the file written as a relative date with a count that is not negative
RelativeLeaves(file) ==
    {l \in TemplateLeaves(file, <<>>) :
        /\ IsRelativeShape(l.parts)
        /\ l.parts[1].v \in DOMAIN IntegerLiteral
        /\ IntegerLiteral[l.parts[1].v] >= 0}

NegativeLeaves(file) ==
    {l \in TemplateLeaves(file, <<>>) :
        /\ IsRelativeShape(l.parts)
        /\ l.parts[1].v \in DOMAIN IntegerLiteral
        /\ IntegerLiteral[l.parts[1].v] < 0}

\* C16: a publication file with a date or datetime field written as a relative date
\* with a negative count (as "-1 days after ${this.metadata.due}") is never read:
\* read_publication_file raises MalformedFileError and returns no document, so the
\* expression is not taken as the opposite direction with a positive count.
C16_NegativeCountRejected ==
    (Done("read_publication_file") /\ NegativeLeaves(raw_file) # {}) => RaisedMalformed

C16_Witness ==
    /\ Done("read_publication_file")
    /\ publication_spec = DatedSpec("datetime")
    /\ raw_file.v["metadata"].v["name"] = PyStr("Homework 01")
    /\ raw_file.v["metadata"].v["due"] = PyDatetime(100)
    /\ raw_file.v["metadata"].v["released"] = Relative("1", "day", "before", ThisDue)
    /\ {l.keypath : l \in NegativeLeaves(raw_file)}
          = {<<"artifacts", "solution", "release_time">>}
    /\ RaisedMalformed
    /\ ret.exc.reason.v = <<"Invalid relative date.",
                            <<"artifacts", "solution", "release_time">>>>

\* the type of the value a placeholder of the file stands for, found by following
\* the file's own references for at most depth steps: a relative date has the type
\* of its reference
RECURSIVE TypeBehind(_, _, _)
TypeBehind(file, dotted_path, depth) ==
    IF Head(dotted_path) # "this" THEN ReferencedValue(dotted_path, PyNone).kind
    ELSE
    LET target == ValueAt(file, Tail(dotted_path)) IN
    IF target.kind # "template" THEN target.kind
    ELSE IF depth = 0 \/ target.v[Len(target.v)].kind # "ref" THEN "none"
    ELSE TypeBehind(file, target.v[Len(target.v)].v, depth - 1)

\* the relative dates of the file that move a bare date by hours
HoursOnDate(file) ==
    {l \in RelativeLeaves(file) :
        /\ l.parts[2].v \in {"hour", "hours"}
        /\ TypeBehind(file, l.parts[4].v, 3) = "date"}

RECURSIVE HasPosition(_, _)
HasPosition(value, keypath) ==
    IF keypath = <<>> THEN TRUE
    ELSE IF IsDict(value) THEN
        /\ Head(keypath) \in DOMAIN value.v
        /\ HasPosition(value.v[Head(keypath)], Tail(keypath))
    ELSE IF IsList(value) THEN
        \E i \in DOMAIN value.v :
            IndexName(i) = Head(keypath) /\ HasPosition(value.v[i], Tail(keypath))
    ELSE FALSE

\* the placeholder names nothing: its namespace is neither this nor one the reader
\* supplies (vars, and previous when read_publication_file was given one), or its
\* dotted path leaves the file, the variables or the previous publication
NamesNothing(dotted_path) ==
    CASE Head(dotted_path) = "this" -> ~HasPosition(raw_file, Tail(dotted_path))
      [] Head(dotted_path) = "vars" -> ~HasPosition(variables, Tail(dotted_path))
      [] Head(dotted_path) = "previous" ->
            \/ fn = "read_collection_file"
            \/ IsNone(previous)
            \/ ~HasPosition(previous, Tail(dotted_path))
      [] OTHER -> TRUE

\* the leaves of the file with a placeholder that names nothing
DanglingLeaves(file) ==
    {l \in TemplateLeaves(file, <<>>) :
        \E i \in DOMAIN l.parts : l.parts[i].kind = "ref" /\ NamesNothing(l.parts[i].v)}

\* C18: a file with a ${...} placeholder whose namespace is unknown or not supplied
\* (previous when no previous publication was given) or whose dotted path has a
\* missing component is never read: the reader raises MalformedFileError and returns
\* no document, whether the placeholder stands alone, inside a longer string or in a
\* relative date.
C18_DanglingReferenceRejected ==
    (pc = "done" /\ DanglingLeaves(raw_file) # {}) => RaisedMalformed

C18_Witness ==
    /\ Done("read_publication_file")
    /\ publication_spec = DatedSpec("date")
    /\ variables = CourseVariables
    /\ IsNone(previous)
    /\ raw_file.v["metadata"].v["name"] =
          PyTemplate(<<Text("Homework in"), Placeholder(CourseName)>>)
    /\ raw_file.v["metadata"].v["due"] = PyDate(10)
    /\ raw_file.v["metadata"].v["released"] = Relative("3", "hours", "before", PreviousDue)
    /\ raw_file.v["artifacts"] = EmptyDict
    /\ RaisedMalformed
    /\ ret.exc.reason.v = <<"Unresolvable reference.", <<"metadata", "released">>>>

\* the leaves that are one placeholder and nothing else, and the leaves with a
\* placeholder inside a longer string that is not a relative date
WholeLeaves(file) ==
    {l \in TemplateLeaves(file, <<>>) : Len(l.parts) = 1 /\ l.parts[1].kind = "ref"}

EmbeddedLeaves(file) ==
    {l \in TemplateLeaves(file, <<>>) : Len(l.parts) > 1 /\ ~IsRelativeShape(l.parts)}

\* the text of a leaf with every placeholder replaced by the string form of the
\* value it stands for; the words of the modelled files are separated by one blank
RECURSIVE Rendered(_, _)
Rendered(parts, resolved) ==
    IF parts = <<>> THEN ""
    ELSE
    LET word == IF Head(parts).kind = "ref"
                THEN str_of(ReferencedValue(Head(parts).v, resolved))
                ELSE Head(parts).v
    IN IF Len(parts) = 1 THEN word ELSE word \o " " \o Rendered(Tail(parts), resolved)

\* the type the schema declares for a leaf of the modelled files
DeclaredKind(keypath) ==
    IF fn = "read_collection_file" THEN "str"
    ELSE IF keypath = <<"metadata", "name">> THEN "str"
    ELSE IF Head(keypath) = "artifacts" THEN "datetime"
    ELSE publication_spec.v["metadata_schema"].v["required_keys"].v[keypath[2]].v["type"].v

RECURSIVE HasUnknownKey(_, _)
HasUnknownKey(raw, schema) ==
    LET type == schema.v["type"].v
        required == GetOr(schema, "required_keys", EmptyDict).v
        optional == GetOr(schema, "optional_keys", EmptyDict).v
        known == DOMAIN required \cup DOMAIN optional
    IN
    IF type = "dict" /\ IsDict(raw) THEN
        \/ ~HasKey(schema, "extra_keys_schema") /\ DOMAIN raw.v \ known # {}
        \/ \E k \in DOMAIN raw.v \cap known :
              HasUnknownKey(raw.v[k], IF k \in DOMAIN required THEN required[k]
                                      ELSE optional[k])
        \/ /\ HasKey(schema, "extra_keys_schema")
           /\ \E k \in DOMAIN raw.v \ known :
                 HasUnknownKey(raw.v[k], schema.v["extra_keys_schema"])
    ELSE IF type = "list" /\ IsList(raw) THEN
        \E e \in Elements(raw) : HasUnknownKey(e, schema.v["element_schema"])
    ELSE FALSE

\* the schema the reader under way checks the file against, when it gets that far
SchemaOfCall ==
    IF fn = "read_collection_file" THEN Ok(_COLLECTION_FILE_DICTCONFIG_SCHEMA)
    ELSE
    LET spec == resolve(IF IsNone(publication_spec) THEN _PERMISSIVE_PUBLICATION_SPEC
                        ELSE publication_spec,
                        _PUBLICATION_SPEC_SCHEMA, EmptyDict)
    IN IF spec.ok THEN Ok(_make_publication_dictconfig_schema(spec.val)) ELSE spec

\* the file has a top-level key a publication file does not know
HasUnknownTopLevelKey(file) == IsDict(file) /\ DOMAIN file.v \ PublicationKeys # {}

\* an artifact of the file has a field an artifact definition does not know
HasUnknownArtifactField(file) ==
    /\ IsDict(file)
    /\ HasKey(file, "artifacts")
    /\ IsDict(file.v["artifacts"])
    /\ \E k \in DOMAIN file.v["artifacts"].v :
          /\ IsDict(file.v["artifacts"].v[k])
          /\ DOMAIN file.v["artifacts"].v[k].v \ ArtifactFields # {}

\* C20: a file with a key that a dict schema node without extra_keys_schema does not
\* list, wherever it sits, is never read: the reader raises MalformedFileError; for
\* a publication file this holds of an unknown top-level key and of an unknown field
\* of an artifact definition, whatever the publication spec.
C20_UnknownKeyRejected ==
    pc = "done" =>
        /\ (SchemaOfCall.ok /\ HasUnknownKey(raw_file, SchemaOfCall.val)) => RaisedMalformed
        /\ (/\ fn = "read_publication_file"
            /\ HasUnknownTopLevelKey(raw_file) \/ HasUnknownArtifactField(raw_file))
           => RaisedMalformed

C20_Witness ==
    /\ Done("read_publication_file")
    /\ publication_spec = PyDict([required_artifacts |-> PyList(<<PyStr("homework")>>),
                                  allow_unspecified_artifacts |-> PyBool(TRUE)])
    /\ IsDict(raw_file)
    /\ DOMAIN raw_file.v = {"artifacts"}
    /\ IsDict(raw_file.v["artifacts"])
    /\ DOMAIN raw_file.v["artifacts"].v = {"homework", "woo"}
    /\ raw_file.v["artifacts"].v["homework"] = EmptyDict
    /\ raw_file.v["artifacts"].v["woo"] = PyDict([bogus |-> PyStr("x")])
    /\ RaisedMalformed
    /\ ret.exc.reason.v = <<"Unexpected extra key.", <<"artifacts", "woo", "bogus">>>>

\* the metadata_schema a collection file writes, or None when it writes none
WrittenMetadataSchema(file) ==
    IF /\ IsDict(file)
       /\ HasKey(file, "publication_spec")
       /\ IsDict(file.v["publication_spec"])
       /\ HasKey(file.v["publication_spec"], "metadata_schema")
    THEN file.v["publication_spec"].v["metadata_schema"]
    ELSE PyNone

\* the file is a collection file but for what its metadata_schema may hold
IsCollectionFileOtherwise(file) ==
    /\ IsDict(file)
    /\ resolve(file, _COLLECTION_FILE_DICTCONFIG_SCHEMA, PyDict([vars |-> variables])).ok

\* the error raised is the one of the metadata_schema check
RaisedByMetadataSchemaCheck ==
    /\ RaisedMalformed
    /\ \E field \in {"path", "reason"} :
          ret.exc[field].kind = "exc" /\ ret.exc[field].type = "InvalidSchemaError"

\* C21: read_collection_file raises MalformedFileError whenever the file, well formed
\* otherwise, writes a metadata_schema that is not null and not a valid schema
\* fragment; a file with a valid one is returned, and for a file whose metadata_schema
\* is null or absent the check is not made: such a file never fails by it.
C21_MetadataSchemaValidated ==
    Done("read_collection_file") =>
        LET written == WrittenMetadataSchema(raw_file)
            valid == IsValidSchema(Merge(PyDict([type |-> PyStr("dict")]), written))
        IN
        /\ IsNone(written) => ~RaisedByMetadataSchemaCheck
        /\ (IsCollectionFileOtherwise(raw_file) /\ IsNone(written)) => ret.status = "return"
        /\ (IsCollectionFileOtherwise(raw_file) /\ ~IsNone(written)) =>
              IF valid THEN ret.status = "return" ELSE RaisedByMetadataSchemaCheck

C21_Witness ==
    /\ Done("read_collection_file")
    /\ IsCollectionFileOtherwise(raw_file)
    /\ WrittenMetadataSchema(raw_file) =
          PyDict([required_keys |-> PyDict([name |-> EmptyDict])])
    /\ HasKey(raw_file.v["publication_spec"], "is_ordered")
    /\ RaisedByMetadataSchemaCheck

C27_SchemaBuildingLeavesSpecUnchanged == [][publication_spec' = publication_spec]_vars

\* ---------------------------------------------------------------------------
\* _discover/_types.py

\* Collection.ordered, when the constructor is not given it
CollectionOrderedDefault == TRUE

\* Collection(publication_spec=..., publications={})
Collection(spec) ==
    [publication_spec |-> spec, publications |-> <<>>, ordered |-> CollectionOrderedDefault]

TypeError == [kind |-> "exc", type |-> "TypeError", reason |-> "missing argument",
              keypath |-> <<>>]

\* UnbuiltArtifact(**artifact_dct, workdir=path)
UnbuiltArtifact(artifact_dct, workdir) ==
    [kind |-> "UnbuiltArtifact", workdir |-> workdir,
     path |-> artifact_dct.v["path"], recipe |-> artifact_dct.v["recipe"],
     release_time |-> artifact_dct.v["release_time"], ready |-> artifact_dct.v["ready"],
     missing_ok |-> artifact_dct.v["missing_ok"]]

\* Publication(**publication_dct): metadata and artifacts have no default
Publication(publication_dct) ==
    IF ~({"metadata", "artifacts"} \subseteq DOMAIN publication_dct.v) THEN Fail(TypeError)
    ELSE Ok([kind |-> "Publication",
             metadata |-> publication_dct.v["metadata"],
             artifacts |-> publication_dct.v["artifacts"],
             ready |-> GetOr(publication_dct, "ready", PyNone),
             release_time |-> GetOr(publication_dct, "release_time", PyNone)])

\* BuiltArtifact(**dct) and PublishedArtifact(**dct)
BuiltArtifact(dct) ==
    [kind |-> "BuiltArtifact", workdir |-> dct.v["workdir"], path |-> dct.v["path"],
     returncode |-> GetOr(dct, "returncode", PyNone),
     stdout |-> GetOr(dct, "stdout", PyNone), stderr |-> GetOr(dct, "stderr", PyNone)]

PublishedArtifact(dct) == [kind |-> "PublishedArtifact", path |-> dct.v["path"]]

\* NamedTuple._asdict(): the fields of an artifact, without its type
_asdict(artifact) == PyDict([field \in DOMAIN artifact \ {"kind"} |-> artifact[field]])

_artifact_from_dict(dct) ==
    IF HasKey(dct, "recipe") THEN UnbuiltArtifact(dct, dct.v["workdir"])
    ELSE IF HasKey(dct, "returncode") THEN BuiltArtifact(dct)
    ELSE PublishedArtifact(dct)

\* Publication._deep_asdict
Publication_deep_asdict(publication) ==
    PyDict([metadata |-> publication.metadata,
            artifacts |-> PyDict([k \in DOMAIN publication.artifacts.v |->
                                    _asdict(publication.artifacts.v[k])])])

\* Publication._deep_fromdict
Publication_deep_fromdict(dct) ==
    Publication(PyDict([metadata |-> dct.v["metadata"],
                        artifacts |-> PyDict([k \in DOMAIN dct.v["artifacts"].v |->
                                                _artifact_from_dict(dct.v["artifacts"].v[k])])]))

AttributeError == [kind |-> "exc", type |-> "AttributeError",
                   reason |-> "'dict' object has no attribute '_asdict'", keypath |-> <<>>]

NameError == [kind |-> "exc", type |-> "NameError",
              reason |-> "name 'PublicationSchema' is not defined", keypath |-> <<>>]

\* Collection._deep_asdict: publication_spec._asdict() is called first, and the
\* publication_spec discover stores is a dictionary
Collection_deep_asdict(collection) ==
    IF IsDict(collection.publication_spec) THEN Fail(AttributeError)
    ELSE Ok(PyDict([publication_spec |-> _asdict(collection.publication_spec),
                    publications |->
                        [i \in DOMAIN collection.publications |->
                           <<collection.publications[i][1],
                             Publication_deep_asdict(collection.publications[i][2])>>]]))

\* Collection._deep_fromdict: the module defines no PublicationSchema
Collection_deep_fromdict(dct) == Fail(NameError)

\* ---------------------------------------------------------------------------
\* _discover/_discover.py

\* directory and file names in ascending order, and the directories of the file
\* system; a path is the sequence of its names below input_directory
NameOrder == <<"01", "default", "homeworks", "publication.yaml">>
Tree == { <<>>, <<"default">>, <<"default", "01">>, <<"homeworks">>, <<"homeworks", "01">> }

input_directory == <<>>

Rank(name) == CHOOSE i \in DOMAIN NameOrder : NameOrder[i] = name

\* p < q for paths: part by part, a proper prefix first
PathLess(p, q) ==
    \E i \in 1..(Len(q)) :
        /\ \A j \in 1..(i - 1) : j <= Len(p) /\ p[j] = q[j]
        /\ \/ i = Len(p) + 1
           \/ i <= Len(p) /\ Rank(p[i]) < Rank(q[i])

\* path.relative_to(base)
relative_to(p, base) == SubSeq(p, Len(base) + 1, Len(p))

\* the subdirectories current_path.iterdir() yields
Subdirectories(p) == {d \in Tree : Len(d) = Len(p) + 1 /\ SubSeq(d, 1, Len(p)) = p}

\* the orders in which iterdir() may yield a set of directories
Orderings(dirs) ==
    {order \in [1..Cardinality(dirs) -> dirs] :
        \A i, j \in 1..Cardinality(dirs) : order[i] = order[j] => i = j}

_is_collection(p) == p \in DOMAIN collection_yaml
_is_publication(p) == p \in DOMAIN publication_yaml

\* parent_collection_path of a directory outside every collection
NoCollection == <<"None">>

DiscoveryError(reason, where) ==
    [kind |-> "exc", type |-> "DiscoveryError", reason |-> reason, path |-> where]

\* dct[key] = value on a dictionary kept as a sequence of (key, value) in insertion
\* order
DictSet(dct, key, value) ==
    IF \E i \in DOMAIN dct : dct[i][1] = key
    THEN [i \in DOMAIN dct |-> IF dct[i][1] = key THEN <<key, value>> ELSE dct[i]]
    ELSE Append(dct, <<key, value>>)

\* dct[key] = value on a dictionary kept as a function
Put(dct, key, value) ==
    [k \in DOMAIN dct \cup {key} |-> IF k = key THEN value ELSE dct[k]]

\* a variant of the nested-collection test that looks only at the directory directly
\* above
NestedOnlyDirectlyBelow(current_path, popped_parent) ==
    /\ _is_collection(current_path)
    /\ popped_parent # NoCollection
    /\ popped_parent = SubSeq(current_path, 1, Len(current_path) - 1)

\* the test that a popped directory is a collection inside another collection
IsNestedCollection(current_path, popped_parent) ==
    /\ _is_collection(current_path)
    /\ popped_parent # NoCollection

\* a variant of the skip test that looks only at the subdirectories of the input
\* directory
SkippedOnlyAtTop(subpath) == Len(subpath) = 1 /\ subpath[1] \in skip_directories

\* subpath.name in skip_directories
IsSkipped(subpath) == subpath[Len(subpath)] \in skip_directories

IsSearched(subpath) == ~IsSkipped(subpath)

\* the records of the history: a callback invoked with its argument, a file read
on_skip(subpath) == [event |-> "on_skip", path |-> PyPath(subpath)]
on_collection(file_path) == [event |-> "on_collection", path |-> file_path]
on_publication(file_path, inserted) ==
    [event |-> "on_publication", path |-> file_path, inserted |-> inserted]
Read(file_path) == [event |-> "read", path |-> file_path]

\* one iteration of the while loop of _search_for_collections_and_publications
SearchStep ==
    /\ pc = "search"
    /\ queue # <<>>
    /\ LET current_path == queue[Len(queue)][1]
           popped_parent == queue[Len(queue)][2]
           rest == SubSeq(queue, 1, Len(queue) - 1)
           parent_collection_path ==
               IF _is_collection(current_path) THEN current_path ELSE popped_parent
       IN
       IF IsNestedCollection(current_path, popped_parent) THEN
           /\ pc' = "raised"
           /\ ret' = Raised(DiscoveryError("Nested collection found.", current_path))
           /\ queue' = rest
           /\ UNCHANGED <<found_collections, found_publications, events>>
       ELSE
           /\ found_collections' =
                 IF _is_collection(current_path)
                 THEN Append(found_collections, current_path)
                 ELSE found_collections
           /\ found_publications' =
                 IF _is_publication(current_path)
                 THEN DictSet(found_publications, current_path, parent_collection_path)
                 ELSE found_publications
           /\ \E order \in Orderings(Subdirectories(current_path)) :
                 LET searched == SelectSeq(order, IsSearched)
                     skipped == SelectSeq(order, IsSkipped)
                 IN
                 /\ queue' = rest \o [i \in DOMAIN searched |->
                                        <<searched[i], parent_collection_path>>]
                 /\ events' = events \o [i \in DOMAIN skipped |-> on_skip(skipped[i])]
           /\ UNCHANGED <<pc, ret>>
    /\ UNCHANGED <<fn, path, publication_spec, raw_file, previous, variables>>
    /\ UNCHANGED <<collection_yaml, publication_yaml, publication_paths, collections,
                   cursor, read_log, skip_directories>>

\* the keys of a dictionary, sorted
RECURSIVE SortedPaths(_)
SortedPaths(paths) ==
    IF paths = {} THEN <<>>
    ELSE LET least == CHOOSE p \in paths : \A q \in paths \ {p} : PathLess(p, q)
         IN <<least>> \o SortedPaths(paths \ {least})

_sort_dictionary(dct) ==
    LET value(key) == dct[CHOOSE i \in DOMAIN dct : dct[i][1] = key][2]
        keys == SortedPaths({dct[i][1] : i \in DOMAIN dct})
    IN [i \in DOMAIN keys |-> <<keys[i], value(keys[i])>>]

\* the search is over: discover sorts the publication paths
SortPublications ==
    /\ pc = "search"
    /\ queue = <<>>
    /\ publication_paths' = _sort_dictionary(found_publications)
    /\ pc' = "make_collections"
    /\ cursor' = 0
    /\ UNCHANGED <<fn, path, publication_spec, raw_file, previous, variables, ret>>
    /\ UNCHANGED <<collection_yaml, publication_yaml, queue, found_collections,
                   found_publications, collections, read_log, skip_directories, events>>

CollectionFileName == "collection.yaml"
PublicationFileName == "publication.yaml"

_make_default_collection ==
    Collection(PyDict([required_artifacts |-> PyList(<<>>),
                       metadata_schema |-> PyNone,
                       allow_unspecified_artifacts |-> PyBool(TRUE)]))

\* one iteration of the loop of _make_collections
MakeCollection ==
    /\ pc = "make_collections"
    /\ cursor < Len(found_collections)
    /\ LET collection_path == found_collections[cursor + 1]
           file_path == PyPath(Append(collection_path, CollectionFileName))
           collection_dct == read_collection_file(file_path, collection_yaml[collection_path],
                                                  EmptyDict)
           key == relative_to(collection_path, input_directory)
       IN
       IF collection_dct.status = "raise" THEN
           /\ pc' = "raised"
           /\ ret' = collection_dct
           /\ events' = Append(events, Read(file_path))
           /\ UNCHANGED <<collections, cursor>>
       ELSE
           /\ collections' =
                 Put(collections, key, Collection(collection_dct.value.v["publication_spec"]))
           /\ events' = events \o <<Read(file_path), on_collection(file_path)>>
           /\ cursor' = cursor + 1
           /\ UNCHANGED <<pc, ret>>
    /\ UNCHANGED <<fn, path, publication_spec, raw_file, previous, variables>>
    /\ UNCHANGED <<collection_yaml, publication_yaml, queue, found_collections,
                   found_publications, publication_paths, read_log, skip_directories>>

\* the end of _make_collections: the default collection is added
AddDefaultCollection ==
    /\ pc = "make_collections"
    /\ cursor = Len(found_collections)
    /\ collections' = Put(collections, <<"default">>, _make_default_collection)
    /\ pc' = "make_publications"
    /\ cursor' = 0
    /\ UNCHANGED <<fn, path, publication_spec, raw_file, previous, variables, ret>>
    /\ UNCHANGED <<collection_yaml, publication_yaml, queue, found_collections,
                   found_publications, publication_paths, read_log, skip_directories,
                   events>>

_previous_publication(collection) ==
    IF ~collection.ordered THEN PyNone
    ELSE IF collection.publications = <<>> THEN PyNone
    ELSE collection.publications[Len(collection.publications)][2]

\* a variant that looks at the collections as they were when the iteration began
WasInserted(universe, collection_key, publication_key) ==
    \E i \in DOMAIN collections[collection_key].publications :
        collections[collection_key].publications[i][1] = publication_key

\* publication_key in collections[collection_key].publications
IsInserted(universe, collection_key, publication_key) ==
    \E i \in DOMAIN universe[collection_key].publications :
        universe[collection_key].publications[i][1] = publication_key

\* one iteration of the loop of _make_publications
MakePublication ==
    /\ pc = "make_publications"
    /\ cursor < Len(publication_paths)
    /\ LET publication_path == publication_paths[cursor + 1][1]
           collection_path == publication_paths[cursor + 1][2]
           collection_key ==
               IF collection_path = NoCollection THEN <<"default">>
               ELSE relative_to(collection_path, input_directory)
           publication_key ==
               IF collection_path = NoCollection
               THEN relative_to(publication_path, input_directory)
               ELSE relative_to(publication_path, collection_path)
           collection == collections[collection_key]
           previous_publication == _previous_publication(collection)
           file_path == PyPath(Append(publication_path, PublicationFileName))
           publication_dct ==
               read_publication_file(file_path, collection.publication_spec,
                                     publication_yaml[publication_path], variables,
                                     previous_publication)
           with_artifacts ==
               SetItem(publication_dct.value, "artifacts",
                   PyDict([key \in DOMAIN publication_dct.value.v["artifacts"].v |->
                             UnbuiltArtifact(publication_dct.value.v["artifacts"].v[key],
                                             publication_path)]))
           publication == Publication(with_artifacts)
           call == [path |-> publication_path,
                    collection_key |-> collection_key,
                    publication_spec |-> collection.publication_spec,
                    previous |-> previous_publication]
       IN
       IF publication_dct.status = "raise" THEN
           /\ pc' = "raised"
           /\ ret' = publication_dct
           /\ read_log' = Append(read_log, call @@ [result |-> PyNone])
           /\ events' = Append(events, Read(file_path))
           /\ UNCHANGED <<collections, cursor>>
       ELSE IF ~publication.ok THEN
           /\ pc' = "raised"
           /\ ret' = Raised(publication.exc)
           /\ read_log' = Append(read_log, call @@ [result |-> PyNone])
           /\ events' = Append(events, Read(file_path))
           /\ UNCHANGED <<collections, cursor>>
       ELSE
           /\ collections' =
                 [collections EXCEPT ![collection_key].publications =
                     DictSet(@, publication_key, publication.val)]
           /\ read_log' = Append(read_log, call @@ [result |-> publication.val])
           /\ events' =
                 events \o <<Read(file_path),
                             on_publication(file_path,
                                 IsInserted(collections', collection_key, publication_key))>>
           /\ cursor' = cursor + 1
           /\ UNCHANGED <<pc, ret>>
    /\ UNCHANGED <<fn, path, publication_spec, raw_file, previous, variables>>
    /\ UNCHANGED <<collection_yaml, publication_yaml, queue, found_collections,
                   found_publications, publication_paths, skip_directories>>

\* the end of discover: the Universe is returned
ReturnUniverse ==
    /\ pc = "make_publications"
    /\ cursor = Len(publication_paths)
    /\ pc' = "done"
    /\ ret' = Returned([kind |-> "Universe", collections |-> collections])
    /\ UNCHANGED <<fn, path, publication_spec, raw_file, previous, variables>>
    /\ UNCHANGED discoverVars

\* ---------------------------------------------------------------------------
\* api/materials/_resolve.py and lib/materials/_discover.py: the previous publication

\* None, for a path
NoPrevious == <<"None">>

\* the nearest directory holding collection.yaml, from dir_path upwards
RECURSIVE _find_parent_collection_root(_)
_find_parent_collection_root(dir_path) ==
    IF _is_collection(dir_path) THEN dir_path
    ELSE IF dir_path = <<>> THEN NoCollection
    ELSE _find_parent_collection_root(SubSeq(dir_path, 1, Len(dir_path) - 1))

\* sorted(collection_root.glob('**/publication.yaml'))
all_publications(collection_root) ==
    SortedPaths({Append(d, PublicationFileName) :
                    d \in {e \in DOMAIN publication_yaml : IsPrefix(collection_root, e)}})

_find_previous(this_publication_path, collection_root) ==
    LET found == all_publications(collection_root)
        index == CHOOSE i \in DOMAIN found : found[i] = this_publication_path
    IN IF index = 1 THEN NoPrevious ELSE found[index - 1]

\* the file _resolve_publication_file resolves as the previous of a publication file
previous_in_resolve(file_path) ==
    LET collection_dir ==
            _find_parent_collection_root(SubSeq(file_path, 1, Len(file_path) - 1))
    IN IF collection_dir # NoCollection THEN _find_previous(file_path, collection_dir)
       ELSE NoPrevious

\* collection.publication_schema.is_ordered, false by default
is_ordered_of(collection) == GetOr(collection.publication_spec, "is_ordered", PyBool(FALSE)).v

\* the file whose publication lib/materials' _make_publications hands as previous
\* to the i-th publication of the sorted dictionary: the last one added to the
\* same collection when the collection is ordered
previous_in_discover(i) ==
    LET key(j) == IF publication_paths[j][2] = NoCollection THEN <<"default">>
                  ELSE relative_to(publication_paths[j][2], input_directory)
        earlier == {j \in 1..(i - 1) : key(j) = key(i)}
    IN IF ~is_ordered_of(collections[key(i)]) \/ earlier = {} THEN NoPrevious
       ELSE Append(publication_paths[CHOOSE j \in earlier : \A k \in earlier : k <= j][1],
                   PublicationFileName)

\* collection files of the discovered tree
OrderedCollectionFiles ==
    { PyDict([publication_spec |->
                PyDict([required_artifacts |-> PyList(<<>>),
                        allow_unspecified_artifacts |-> PyBool(TRUE)])]),
      PyDict([publication_spec |->
                PyDict([required_artifacts |-> PyList(<<>>),
                        allow_unspecified_artifacts |-> PyBool(TRUE),
                        is_ordered |-> PyBool(FALSE)])]),
      PyDict([publication_spec |->
                PyDict([required_artifacts |-> PyList(<<>>),
                        allow_unspecified_artifacts |-> PyBool(TRUE),
                        is_ordered |-> PyBool(TRUE)])]) }

\* collection files that read_collection_file rejects
MalformedCollectionFiles == { YamlSyntaxError }

\* publication files that read_publication_file rejects
MalformedPublicationFiles == { YamlSyntaxError }

\* the well-formed publication file of the discovered tree
DiscoveredPublicationFile ==
    PyDict([artifacts |-> PyDict([homework |-> PyDict([recipe |-> PyStr("make homework")])])])

\* the values of skip_directories
SkipSets == { {}, {"01"}, {"homeworks"} }

\* the trees discover is run on: with nothing to skip, collection files of every
\* kind and at most one publication file that cannot be loaded (discover stops at
\* the first); with directories to skip, well-formed files only
CollectionFilesOf(skip) ==
    IF skip = {} THEN OrderedCollectionFiles \cup MalformedCollectionFiles
    ELSE {file \in OrderedCollectionFiles : ~HasKey(FileSpec(file), "is_ordered")}

BrokenIn(dirs, skip) == IF skip = {} THEN dirs \cup {NoCollection} ELSE {NoCollection}

InitDiscover ==
    /\ pc = "search"
    /\ fn = "discover"
    /\ path = PyNone
    /\ publication_spec = PyNone
    /\ raw_file = PyNone
    /\ previous = PyNone
    /\ variables = EmptyDict
    /\ ret = NotCalled
    /\ skip_directories \in SkipSets
    /\ \E dirs \in {ds \in SUBSET Tree : Cardinality(ds) <= MaxCollections} :
          collection_yaml \in [dirs -> CollectionFilesOf(skip_directories)]
    /\ \E dirs \in {ds \in SUBSET Tree : Cardinality(ds) <= MaxPublications} :
          \E broken \in BrokenIn(dirs, skip_directories),
             file \in MalformedPublicationFiles :
              publication_yaml =
                  [d \in dirs |-> IF d = broken THEN file ELSE DiscoveredPublicationFile]
    /\ queue = << <<input_directory, NoCollection>> >>
    /\ found_collections = <<>>
    /\ found_publications = <<>>
    /\ publication_paths = <<>>
    /\ collections = <<>>
    /\ cursor = 0
    /\ read_log = <<>>
    /\ events = <<>>

NextDiscover ==
    \/ SearchStep
    \/ SortPublications
    \/ MakeCollection
    \/ AddDefaultCollection
    \/ MakePublication
    \/ ReturnUniverse

SpecDiscover == InitDiscover /\ [][NextDiscover]_vars

\* ---------------------------------------------------------------------------
\* properties of discover

\* the search reaches a directory unless it lies in or below a subdirectory whose
\* name is to be skipped
IsReached(d) == \A i \in DOMAIN d : d[i] \notin skip_directories

\* the directory of the collection.yaml that owns a publication directory: its
\* nearest ancestor-or-self holding one, NoCollection when there is none
OwningCollection(p) ==
    LET holders == {d \in DOMAIN collection_yaml : IsPrefix(d, p)} IN
    IF holders = {} THEN NoCollection
    ELSE CHOOSE d \in holders : \A e \in holders : Len(e) <= Len(d)

\* the collection file of the directory sets is_ordered to true
IsOrderedCollection(d) ==
    /\ d \in DOMAIN collection_yaml
    /\ HasFileSpec(collection_yaml[d])
    /\ HasKey(FileSpec(collection_yaml[d]), "is_ordered")
    /\ FileSpec(collection_yaml[d]).v["is_ordered"] = PyBool(TRUE)

\* C7: during discover a publication is resolved with a previous publication only
\* when the publication_spec of its owning collection has is_ordered true;
\* publications of a collection whose is_ordered is false or omitted, and of the
\* default collection, are resolved with no previous.
C7_PreviousOnlyWhenOrdered ==
    \A i \in DOMAIN read_log :
        ~IsNone(read_log[i].previous) => IsOrderedCollection(OwningCollection(read_log[i].path))

\* the earlier calls of discover for publications of the same collection as call i
EarlierSiblings(i) ==
    {j \in 1..(i - 1) :
        OwningCollection(read_log[j].path) = OwningCollection(read_log[i].path)}

\* C8: within one ordered collection discover resolves publications in ascending
\* sorted path order, and the previous given to each is the resolved result of the
\* publication resolved immediately before it in the same collection, none for the
\* first one.
C8_PreviousIsPrecedingSibling ==
    \A i \in DOMAIN read_log :
        IsOrderedCollection(OwningCollection(read_log[i].path)) =>
            /\ \A j \in EarlierSiblings(i) : PathLess(read_log[j].path, read_log[i].path)
            /\ EarlierSiblings(i) = {} => IsNone(read_log[i].previous)
            /\ EarlierSiblings(i) # {} =>
                  read_log[i].previous =
                     read_log[CHOOSE j \in EarlierSiblings(i) :
                                \A k \in EarlierSiblings(i) : k <= j].result

\* the pairs (outer, inner) of collection directories, inner strictly below outer
\* and reached by the search
NestedCollections ==
    {pair \in (DOMAIN collection_yaml) \X (DOMAIN collection_yaml) :
        IsPrefix(pair[1], pair[2]) /\ pair[1] # pair[2] /\ IsReached(pair[2])}

\* C12: whenever a directory holding collection.yaml lies strictly below another
\* directory holding collection.yaml, discover ends by raising DiscoveryError, not
\* MalformedFileError, before any definition file is read and whatever the two
\* collection files contain.
C12_NestedCollectionRaisesDiscoveryError ==
    NestedCollections # {} =>
        /\ pc \in {"search", "raised"}
        /\ read_log = <<>>
        /\ pc = "raised" => ret.exc.type = "DiscoveryError"

C12_Witness ==
    /\ pc = "raised"
    /\ ret.exc.type = "DiscoveryError"
    /\ ret.exc.path = <<"homeworks", "01">>
    /\ DOMAIN collection_yaml = {<<>>, <<"homeworks", "01">>}
    /\ \A d \in DOMAIN collection_yaml : collection_yaml[d] \in MalformedCollectionFiles

\* the key discover gives the collection that owns a publication directory
OwningCollectionKey(p) ==
    IF OwningCollection(p) = NoCollection THEN <<"default">>
    ELSE relative_to(OwningCollection(p), input_directory)

\* the positions at which a collection of the universe holds a publication made
\* from the publication.yaml of directory p (its artifacts carry p as workdir)
PublicationsMadeFrom(universe, key, p) ==
    {i \in DOMAIN universe[key].publications :
        \A name \in DOMAIN universe[key].publications[i][2].artifacts.v :
            universe[key].publications[i][2].artifacts.v[name].workdir = p}

\* the keys of the collections of the universe that hold directory p
CollectionsHolding(universe, p) ==
    {key \in DOMAIN universe : PublicationsMadeFrom(universe, key, p) # {}}

\* C23: in the universe discover returns, every directory that holds
\* publication.yaml and is reached by the search is a publication of exactly one
\* collection, the one of its nearest ancestor-or-self directory holding
\* collection.yaml, or the default collection when there is no such directory.
C23_PublicationInNearestCollection ==
    pc = "done" =>
        \A p \in DOMAIN publication_yaml :
            IsReached(p) =>
                /\ CollectionsHolding(ret.value.collections, p) = {OwningCollectionKey(p)}
                /\ Cardinality(PublicationsMadeFrom(ret.value.collections,
                                                    OwningCollectionKey(p), p)) = 1

\* the directory of a definition file
DirectoryOf(file_path) == SubSeq(file_path.v, 1, Len(file_path.v) - 1)

\* the subdirectories the search meets and skips: their name is to be skipped and
\* the directory they lie in is reached
MetAndSkipped ==
    {d \in Tree \ {input_directory} :
        /\ d[Len(d)] \in skip_directories
        /\ IsReached(SubSeq(d, 1, Len(d) - 1))}

EventsOf(kind) == {i \in DOMAIN events : events[i].event = kind}

\* the directories discover has reported so far: found by the search, read, handed
\* to on_collection or on_publication, or the workdir of a publication made
Reported ==
    {found_collections[i] : i \in DOMAIN found_collections}
    \cup {found_publications[i][1] : i \in DOMAIN found_publications}
    \cup {DirectoryOf(events[i].path) : i \in DOMAIN events \ EventsOf("on_skip")}
    \cup {p \in Tree : CollectionsHolding(collections, p) # {}}

\* C24: discover reports no collection and no publication in or below a
\* subdirectory whose name is in skip_directories, at whatever depth; on_skip is
\* invoked once for each such subdirectory the search meets, and for nothing else;
\* and once the search is over every collection and publication directory outside
\* the skipped subtrees has been found, and by the end has been read and handed to
\* its callback.
C24_SkippedSubtreesAreLeftOut ==
    /\ \A d \in Reported : IsReached(d)
    /\ \A i \in EventsOf("on_skip") :
          /\ events[i].path.v \in MetAndSkipped
          /\ \A j \in EventsOf("on_skip") : events[j].path = events[i].path => j = i
    /\ pc \in {"make_collections", "make_publications", "done"} =>
          /\ {events[i].path.v : i \in EventsOf("on_skip")} = MetAndSkipped
          /\ {found_collections[i] : i \in DOMAIN found_collections} =
                {d \in DOMAIN collection_yaml : IsReached(d)}
          /\ {found_publications[i][1] : i \in DOMAIN found_publications} =
                {d \in DOMAIN publication_yaml : IsReached(d)}
    /\ pc = "done" =>
          /\ {DirectoryOf(events[i].path) : i \in EventsOf("on_collection")} =
                {d \in DOMAIN collection_yaml : IsReached(d)}
          /\ {DirectoryOf(events[i].path) : i \in EventsOf("on_publication")} =
                {d \in DOMAIN publication_yaml : IsReached(d)}

\* the name 01 is skipped under two directories; the publication of homeworks/01
\* is left out, the collection and the publication of homeworks are reported
C24_Witness ==
    /\ pc = "done"
    /\ skip_directories = {"01"}
    /\ DOMAIN collection_yaml = {<<"homeworks">>}
    /\ DOMAIN publication_yaml = {<<"homeworks">>, <<"homeworks", "01">>}
    /\ {events[i].path.v : i \in EventsOf("on_skip")} =
          {<<"default", "01">>, <<"homeworks", "01">>}
    /\ Cardinality(EventsOf("on_skip")) = 2
    /\ Reported = {<<"homeworks">>}

\* C25: serialization round-trips: for every publication p,
\* Publication._deep_fromdict(p._deep_asdict()) is p again, whatever its metadata,
\* artifacts, ready and release_time; and for every collection c,
\* Collection._deep_fromdict(c._deep_asdict()) is c again, whatever its ordered.
C25_SerializationRoundTrips ==
    /\ \A key \in DOMAIN collections :
          \A i \in DOMAIN collections[key].publications :
              Publication_deep_fromdict(
                  Publication_deep_asdict(collections[key].publications[i][2]))
                = Ok(collections[key].publications[i][2])
    /\ \A key \in DOMAIN collections :
          /\ Collection_deep_asdict(collections[key]).ok
          /\ Collection_deep_fromdict(Collection_deep_asdict(collections[key]).val)
                = Ok(collections[key])

\* the definition file cannot be read
FileFails(file_path) ==
    LET d == DirectoryOf(file_path)
        name == file_path.v[Len(file_path.v)]
    IN IF name = CollectionFileName
       THEN collection_yaml[d] \in MalformedCollectionFiles
       ELSE publication_yaml[d] \in MalformedPublicationFiles

\* the files handed to a callback so far
CalledBack ==
    {events[i].path : i \in EventsOf("on_collection") \cup EventsOf("on_publication")}

\* C26: discover is fail-fast: the read of a file that cannot be read is the last
\* thing discover does, it ends by raising, no callback is ever invoked for that
\* file, and no file is read after it; a file that can be read is followed at once
\* by its callback; a Universe is returned only when every file reached was read.
C26_DiscoveryIsFailFast ==
    /\ \A i \in EventsOf("read") :
          IF FileFails(events[i].path)
          THEN /\ i = Len(events)
               /\ pc = "raised"
               /\ ret.status = "raise"
               /\ events[i].path \notin CalledBack
          ELSE /\ i < Len(events)
               /\ events[i + 1].event \in {"on_collection", "on_publication"}
               /\ events[i + 1].path = events[i].path
    /\ pc = "done" <=> (ret.status = "return")
    /\ pc = "done" =>
          /\ \A d \in DOMAIN collection_yaml :
                IsReached(d) => collection_yaml[d] \notin MalformedCollectionFiles
          /\ \A d \in DOMAIN publication_yaml :
                IsReached(d) => publication_yaml[d] \notin MalformedPublicationFiles

\* the collection file of homeworks is read and reported; the publication file of
\* the input directory, first in sorted order, cannot be read: discover raises
\* with the publication file of homeworks left unread
C26_Witness ==
    /\ pc = "raised"
    /\ ret.status = "raise"
    /\ DOMAIN collection_yaml = {<<"homeworks">>}
    /\ DOMAIN publication_yaml = {<<>>, <<"homeworks">>}
    /\ publication_yaml[<<>>] \in MalformedPublicationFiles
    /\ publication_yaml[<<"homeworks">>] = DiscoveredPublicationFile
    /\ events = << Read(PyPath(<<"homeworks", CollectionFileName>>)),
                   on_collection(PyPath(<<"homeworks", CollectionFileName>>)),
                   Read(PyPath(<<PublicationFileName>>)) >>
    /\ collections[<<"default">>].publications = <<>>

\* the directories holding a collection.yaml that the search reaches
DiscoveredCollections == {d \in DOMAIN collection_yaml : IsReached(d)}

\* the collection a collection file describes, as _make_collections builds it
CollectionOf(d) ==
    Collection(read_collection_file(PyPath(Append(d, CollectionFileName)),
                                    collection_yaml[d], EmptyDict).value.v["publication_spec"])

\* C28: the universe discover returns has one entry for each discovered
\* collection.yaml and one more for the synthetic default collection: distinct
\* collection directories have distinct keys, and the entry of a discovered
\* collection holds the publication_spec of its file, whatever the directory is
\* called.
C28_OneEntryPerCollection ==
    pc = "done" =>
        /\ Cardinality(DOMAIN ret.value.collections) = Cardinality(DiscoveredCollections) + 1
        /\ \A d \in DiscoveredCollections :
              /\ relative_to(d, input_directory) \in DOMAIN ret.value.collections
              /\ ret.value.collections[relative_to(d, input_directory)].publication_spec
                    = CollectionOf(d).publication_spec

\* C29: for every publication file inside a collection, api.materials.resolve
\* resolves as its previous the same publication that discover hands it: the one
\* made immediately before it in the sorted order within the collection when the
\* collection is ordered, none otherwise, also when publication directories lie
\* inside one another.
C29_ResolveAgreesWithDiscover ==
    pc \in {"make_publications", "done"} =>
        \A i \in DOMAIN publication_paths :
            publication_paths[i][2] # NoCollection =>
                previous_in_resolve(Append(publication_paths[i][1], PublicationFileName))
                  = previous_in_discover(i)

IsPublicationFile(file_path) == file_path.v[Len(file_path.v)] = PublicationFileName

\* the reads of publication files so far
PublicationReads == {i \in EventsOf("read") : IsPublicationFile(events[i].path)}

\* C30: the phases of discover do not interleave: every on_skip comes before every
\* read, and while the search runs or after it raised nothing has been read; every
\* collection file reached is read, and on_collection invoked right after its
\* read, before the first publication file is read; on_publication is invoked for
\* a publication only once it is in its collection. Hence a nested collection
\* ends discover with DiscoveryError and no file read, malformed or not.
C30_PhasesDoNotInterleave ==
    /\ \A i \in EventsOf("on_skip") : \A j \in 1..(i - 1) : events[j].event = "on_skip"
    /\ pc = "search" => \A i \in DOMAIN events : events[i].event = "on_skip"
    /\ NestedCollections # {} =>
          /\ EventsOf("read") = {}
          /\ pc = "raised" => ret.exc.type = "DiscoveryError"
    /\ \A i \in EventsOf("on_collection") :
          i > 1 /\ events[i - 1] = Read(events[i].path)
    /\ \A j \in PublicationReads :
          \A d \in DiscoveredCollections :
              \E i \in EventsOf("on_collection") :
                  i < j /\ events[i].path = PyPath(Append(d, CollectionFileName))
    /\ \A i \in EventsOf("on_publication") :
          /\ events[i].inserted
          /\ events[i - 1] = Read(events[i].path)

\* a run through all three phases: two directories skipped, then the collection
\* file of homeworks read and reported, then its two publication files
C30_Witness ==
    /\ pc = "done"
    /\ skip_directories = {"01"}
    /\ DOMAIN collection_yaml = {<<"homeworks">>}
    /\ DOMAIN publication_yaml = {<<>>, <<"homeworks">>}
    /\ Len(events) = 8
    /\ events[1].event = "on_skip" /\ events[2].event = "on_skip"
    /\ events[3] = Read(PyPath(<<"homeworks", CollectionFileName>>))
    /\ events[4] = on_collection(PyPath(<<"homeworks", CollectionFileName>>))
    /\ events[5] = Read(PyPath(<<PublicationFileName>>))
    /\ events[6] = on_publication(PyPath(<<PublicationFileName>>), TRUE)
    /\ events[7] = Read(PyPath(<<"homeworks", PublicationFileName>>))
    /\ events[8] = on_publication(PyPath(<<"homeworks", PublicationFileName>>), TRUE)

====
